---- MODULE Spec2Model ----
(***************************************************************************)
(* Synchronized capture-and-classification pipeline of                     *)
(* classify-audio-video: OBSCapture (video source), PyAudioCapture (audio  *)
(* ring buffer), SyncManager (snapshot under sync_lock) and                *)
(* ActivityClassifier (rule cascade, single result slot).                  *)
(*                                                                         *)
(* Conventions.  Python None is the empty tuple << >> for records and 0    *)
(* for frame identifiers; Some(x) is <<x>>.  Floats are fixed point in     *)
(* thousandths (0.1 is 100, 0.95 is 950); intensities are grey levels.     *)
(* A feature dict is a record whose keys hold Absent when the dict lacks   *)
(* the key; "extra" says whether the dict holds keys the cascade does not  *)
(* read (histogram, amplitudes), so a dict is falsy iff every key is       *)
(* Absent and extra is FALSE.                                              *)
(***************************************************************************)
EXTENDS Integers, Sequences, FiniteSets, TLC

VARIABLES
    \* ---- ActivityClassifier instances and one classification call
    clf,              \* [Classifiers -> instance fields]
    analysis_pc,      \* [Threads -> "none" (no such thread, or it returned) | "run"]: _analysis_loop
                      \*  threads of instance 1, the one holding the SyncManager
    video_features,   \* argument of _classify_activity
    audio_features,   \* argument of _classify_activity
    entry,            \* [Classifiers -> which method was called: "none" (not yet),
                      \*  "classify" (_classify_activity), "rules" (_rule_based_classification)]
    activity,         \* [Classifiers -> value the call returned (None or Some(result))]
    clock,            \* time.time(), in whole seconds
    \* ---- PyAudioCapture
    openable,         \* device indexes the audio driver can open (environment)
    device_index,
    opens,            \* device indexes the last start() call passed to pyaudio.open
    is_streaming,
    stream,           \* "none" (None), "open" (a started PyAudio stream) or
                      \*  "closed" (a stream after stop_stream() and close())
    audio_buffer,     \* [0..buffer_chunks-1 -> chunk], 0 is np.zeros
    buffer_index,
    written,          \* number of device callbacks so far: the callback's in_data
    rd_pc,            \* get_latest_audio: "idle" or "flatten" (window selected)
    rd_view,          \* the window selected under buffer_lock
    latest,           \* what the last get_latest_audio call returned
    \* ---- OBSCapture
    obs_reachable,    \* the OBS WebSocket backend accepts the connection (environment)
    backend_video,    \* video-capable source names the backend reports (environment)
    connected,
    client,           \* TRUE iff self.client is not None
    video_sources,
    current_frame,    \* 0 is None, k > 0 the k-th decoded screenshot
    frame_time,
    frames_captured,  \* screenshots decoded so far
    is_capturing,
    cap_pc,           \* [Threads -> "none" (no such thread, or it returned) | "run"]: _capture_loop threads
    cap_src,          \* [Threads -> source_name argument of the thread]
    \* ---- SyncManager
    is_running,
    sync_pc,          \* [Threads -> position of a _sync_loop thread]
    s_video,          \* [Threads -> local video_frame]
    s_audio,          \* [Threads -> local audio_data]
    s_tick,           \* [Threads -> number of the tick whose data the thread publishes]
    sync_ticks,       \* ticks that processed a pair so far
    sync_lock,        \* 0 when free, else the _sync_loop thread that holds it
    current_video_frame,
    current_audio_data,
    last_sync_time,
    sync_result,      \* what the last get_sync_data() call returned
    stop_pc           \* where a SyncManager.stop() call stands: "idle" (no call),
                      \*  "join", "audio", "video" (the statement it executes next)

callVars == <<video_features, audio_features, entry, activity>>
audioVars == <<openable, opens, device_index, is_streaming, stream, audio_buffer,
               buffer_index, written, rd_pc, rd_view, latest>>
obsVars == <<obs_reachable, backend_video, connected, client, video_sources,
             current_frame, frame_time, frames_captured, is_capturing, cap_pc, cap_src>>
snapshotVars == <<current_video_frame, current_audio_data, last_sync_time>>
syncVars == <<is_running, sync_pc, s_video, s_audio, s_tick, sync_ticks, sync_lock,
              snapshotVars, sync_result, stop_pc>>
VARIABLES
    frame_call,       \* a SyncManager.get_current_frame() call: None before the
                      \*  first, [pc |-> "fallback", ...] between its two reads,
                      \*  [pc |-> "done", ...] once it returned
    service,          \* an ExternalServiceClient and one call of it:
                      \*  retry_count, retry_delay (seconds): the instance fields
                      \*  pc: "idle" (no call yet), "request", "sleep", "done"
                      \*  op: which of send_activity()/get_activities() it is
                      \*  attempt: the loop variable of the call
                      \*  outcomes: how each request of the call ended, in order
                      \*  sleeps: the time.sleep() arguments of the call, in order
                      \*  result: what the call returned
    error_system,     \* an ErrorSystem and its log file:
                      \*  max_errors: the instance field
                      \*  errors: self.errors, newest first
                      \*  file: the parsed content of error_log_path, None if absent
                      \*  logged: records logged so far; the next is logged + 1
    api,              \* the web application around POST /api/classify:
                      \*  storage: the rows of table activities, by id
                      \*  response: the last answer of the route
    unit              \* the object of a specification that exercises one part
                      \*  of the program by itself, either
                      \*  a window of int16 samples and what is computed from it:
                      \*   window: the samples, as get_latest_audio() returns them
                      \*   nan_negative: whether 0/0 sets the sign bit here
                      \*   pc: "raw", "processed", "extracted"
                      \*   audio: what process_audio() returned
                      \*   zero_crossing_rate: what feature extraction computed
                      \*  or the threads of the program inside the methods that
                      \*  use a component lock: for each, the method it executes,
                      \*  the statement it is at and the locks it holds
\* each of the last four is None in a specification that has no such object

frameVars == <<frame_call>>
svcVars == <<service>>
errVars == <<error_system>>
apiVars == <<api>>
unitVars == <<unit>>
appVars == <<frameVars, svcVars, errVars, apiVars, unitVars>>
vars == <<clf, analysis_pc, callVars, clock, appVars, audioVars, obsVars, syncVars>>

None == << >>
Some(x) == <<x>>

\* ------------------------------------------------------------- bounds
MaxClock == 2
MaxCallbacks == 8      \* device callbacks in one run: more than two wraps
buffer_seconds == 1    \* PyAudioCapture(buffer_seconds=1)
chunk_size == 4096     \* PyAudioCapture(chunk_size=4096): a buffer of 3 chunks
MaxThreads == 2        \* threads each start method may create in one run
MaxFrames == 2         \* screenshots the backend delivers in one run
MaxTicks == 2          \* sync ticks that publish in one run
MaxRetries == 3        \* largest retry_count of an ExternalServiceClient
MaxKept == 3           \* largest max_errors of an ErrorSystem
MaxLogged == 4         \* records logged in one run
MaxWindow == 3         \* samples in the longest window processed
MaxRows == 2           \* rows inserted into table activities in one run

\* ------------------------------------------------- program constants
sample_rate == 16000
default_duration_ms == 500

\* ------------------------------------------------- feature dictionaries
Absent == -1     \* dict has no such key: dict.get(key, 0) yields the default
NaN == -2        \* float('nan'): every ordered comparison with it is False

Get(v, default) == IF v = Absent THEN default ELSE v
Gt(x, c) == x # NaN /\ x > c
Lt(x, c) == x # NaN /\ x < c

EmptyVideo == [std_intensity |-> Absent, mean_intensity |-> Absent, extra |-> FALSE]
EmptyAudio == [energy |-> Absent, zero_crossing_rate |-> Absent, extra |-> FALSE]

\* bool(dict): a dict is truthy iff it has at least one key
Truthy(d) == d # EmptyVideo /\ d # EmptyAudio

StdVals == {10, 20, 30, 35, 50, 60}
MeanVals == {50, 100}
EnergyVals == {NaN, 0, 50, 60, 100, 101, 200, 300}
ZcrVals == {200, 500}

VideoDicts ==
    {EmptyVideo, [EmptyVideo EXCEPT !.extra = TRUE]}
    \cup {[std_intensity |-> s, mean_intensity |-> m, extra |-> TRUE] :
            s \in StdVals \cup {Absent}, m \in MeanVals \cup {Absent}}

AudioDicts ==
    {EmptyAudio, [EmptyAudio EXCEPT !.extra = TRUE]}
    \cup {[energy |-> e, zero_crossing_rate |-> z, extra |-> TRUE] :
            e \in EnergyVals \cup {Absent}, z \in ZcrVals \cup {Absent}}

\* mutant: the cap is dropped
MutMin(a, b) == a

Min(a, b) == IF a <= b THEN a ELSE b

\* ----------------------------------------------------- the rule cascade
Result(type, confidence, now) ==
    [type |-> type, confidence |-> confidence, timestamp |-> now, duration |-> 0]

\* lines 253-255: the defaults every path starts from
DefaultRule == <<"inactif", 600>>

\* lines 266-275: audio rules, "prioritaires si fort niveau sonore"
AudioRuleApplies(af) == Truthy(af) /\ Gt(Get(af.energy, 0), 100)

\* mutant: the confidence caps are forgotten
MutAudioRule(af) ==
    IF Gt(Get(af.zero_crossing_rate, 0), 200)
    THEN <<"visioconference", 700 + Get(af.energy, 0)>>
    ELSE <<"video", 650 + Get(af.energy, 0)>>

AudioRule(af) ==
    IF Gt(Get(af.zero_crossing_rate, 0), 200)
    THEN <<"visioconference", Min(700 + Get(af.energy, 0), 950)>>
    ELSE <<"video", Min(650 + Get(af.energy, 0), 900)>>

\* lines 277-299: video rules, the elif branch
\* mutant: the static-image test reads std_intensity <= 20
MutVideoRule(vf) ==
    LET std_intensity == Get(vf.std_intensity, 0)
        mean_intensity == Get(vf.mean_intensity, 0)
    IN  IF ~Gt(std_intensity, 20)
        THEN IF Lt(mean_intensity, 100)
             THEN <<"inactif", 800>>
             ELSE <<"lecture", 700>>
        ELSE IF Gt(std_intensity, 50)
             THEN <<"video", 750>>
             ELSE <<"navigation_web", 650>>

VideoRule(vf) ==
    LET std_intensity == Get(vf.std_intensity, 0)
        mean_intensity == Get(vf.mean_intensity, 0)
    IN  IF Lt(std_intensity, 20)
        THEN IF Lt(mean_intensity, 100)
             THEN <<"inactif", 800>>
             ELSE <<"lecture", 700>>
        ELSE IF Gt(std_intensity, 50)
             THEN <<"video", 750>>
             ELSE <<"navigation_web", 650>>

\* lines 301-309: the combination rule, applied after the two above
\* mutant: the combination rule yields to a matched audio rule
MutOverlayApplies(vf, af) ==
    /\ Truthy(vf) /\ Truthy(af)
    /\ Gt(Get(vf.std_intensity, 0), 30)
    /\ Gt(Get(af.energy, 0), 50)
    /\ ~AudioRuleApplies(af)

OverlayApplies(vf, af) ==
    /\ Truthy(vf) /\ Truthy(af)
    /\ Gt(Get(vf.std_intensity, 0), 30)
    /\ Gt(Get(af.energy, 0), 50)

OverlayRule == <<"visioconference", 850>>

\* mutant: a result below the instance's min_confidence falls back to the default
MutRuleBasedClassification(self, vf, af, now) ==
    IF ~Truthy(vf) /\ ~Truthy(af)
    THEN Result(DefaultRule[1], DefaultRule[2], now)
    ELSE LET first == IF AudioRuleApplies(af) THEN AudioRule(af)
                      ELSE IF Truthy(vf) THEN VideoRule(vf)
                      ELSE DefaultRule
             final == IF OverlayApplies(vf, af) THEN OverlayRule ELSE first
         IN  IF final[2] < self.min_confidence
             THEN Result(DefaultRule[1], DefaultRule[2], now)
             ELSE Result(final[1], final[2], now)

RuleBasedClassification(self, vf, af, now) ==
    IF ~Truthy(vf) /\ ~Truthy(af)
    THEN Result(DefaultRule[1], DefaultRule[2], now)
    ELSE LET first == IF AudioRuleApplies(af) THEN AudioRule(af)
                      ELSE IF Truthy(vf) THEN VideoRule(vf)
                      ELSE DefaultRule
             final == IF OverlayApplies(vf, af) THEN OverlayRule ELSE first
         IN  Result(final[1], final[2], now)

\* mutant: the empty-input guard of lines 230-231 is missing
MutClassifyActivity(self, vf, af, now) ==
    Some(RuleBasedClassification(self, vf, af, now))

\* lines 220-241; the model branch (lines 234-238) is "pass" and falls through
ClassifyActivity(self, vf, af, now) ==
    IF ~Truthy(vf) /\ ~Truthy(af)
    THEN None
    ELSE IF self.model # "none" /\ self.model # "rule_based"
         THEN Some(RuleBasedClassification(self, vf, af, now))
         ELSE Some(RuleBasedClassification(self, vf, af, now))

\* ------------------------------------------------ classifier instances
Classifiers == {1, 2}

\* lines 19-44 and 46-62: the fields after __init__
NewClassifier(model, min_confidence, analysis_interval) ==
    [model |-> model, min_confidence |-> min_confidence,
     analysis_interval |-> analysis_interval, is_analyzing |-> FALSE,
     last_activity |-> None, last_analysis_time |-> 0]

\* states an instance can be in when _classify_activity is called on it
ClassifierStates ==
    LET fresh == {NewClassifier("none", 600, 60), NewClassifier("rule_based", 900, 5)}
    IN  fresh \cup
        {[s EXCEPT !.is_analyzing = TRUE,
                   !.last_activity = Some(Result("lecture", 700, 1)),
                   !.last_analysis_time = 1] : s \in fresh}

\* ------------------------------------------------------ PyAudioCapture
Devices == {0, 1}

\* lines 38-40: int(sample_rate / chunk_size * buffer_seconds)
buffer_chunks == (sample_rate * buffer_seconds) \div chunk_size
Slots == 0..(buffer_chunks - 1)

\* lines 28-60: the fields after __init__(device_index=d)
NewPyAudioCapture(d) ==
    /\ device_index = d
    /\ opens = << >>
    /\ is_streaming = FALSE
    /\ stream = "none"
    /\ audio_buffer = [k \in Slots |-> 0]
    /\ buffer_index = 0
    /\ written = 0
    /\ rd_pc = "idle"
    /\ rd_view = None
    /\ latest = None

\* mutant: the fallback is tried whatever the index that failed
MutFallsBack(d) == TRUE

\* line 129: the test guarding the recursive call
FallsBack(d) == d # 0

\* lines 103-132: start(), with its one recursive call inlined.  Opening
\* device d raises iff d is not openable.
PyAudioStartEffect ==
    IF is_streaming
    THEN /\ opens' = << >>
         /\ UNCHANGED <<device_index, is_streaming, stream>>
    ELSE IF device_index \in openable
         THEN /\ opens' = <<device_index>>
              /\ stream' = "open"
              /\ is_streaming' = TRUE
              /\ UNCHANGED device_index
         ELSE IF FallsBack(device_index)
              THEN /\ device_index' = 0
                   /\ opens' = <<device_index, 0>>
                   /\ IF 0 \in openable
                      THEN stream' = "open" /\ is_streaming' = TRUE
                      ELSE UNCHANGED <<stream, is_streaming>>
              ELSE /\ opens' = <<device_index>>
                   /\ UNCHANGED <<device_index, is_streaming, stream>>

\* lines 134-145: stop()
PyAudioStopEffect ==
    IF ~is_streaming \/ stream = "none"
    THEN UNCHANGED <<is_streaming, stream>>
    ELSE stream' = "none" /\ is_streaming' = FALSE

\* a stop() call is between two of its statements: the stream is closed and
\* still referenced (after line 141), or dropped with the flag still set
\* (after line 142)
StopInProgress == stream = "closed" \/ (stream = "none" /\ is_streaming)

\* start() and stop() are called by the one thread that owns the capture
\* (SyncManager.start/stop, __del__), so a start() does not begin inside a
\* stop()
PyAudioStart ==
    /\ ~StopInProgress
    /\ PyAudioStartEffect
    /\ UNCHANGED <<openable, audio_buffer, buffer_index, written, rd_pc, rd_view, latest>>
    /\ UNCHANGED <<clf, analysis_pc, callVars, clock, appVars, obsVars, syncVars>>

PyAudioStop ==
    /\ PyAudioStopEffect
    /\ UNCHANGED <<openable, opens, device_index, audio_buffer, buffer_index, written,
                   rd_pc, rd_view, latest>>
    /\ UNCHANGED <<clf, analysis_pc, callVars, clock, appVars, obsVars, syncVars>>

\* mutant: the flag is cleared while the device stream is left running
MutStopCloseEffect == is_streaming' = FALSE /\ UNCHANGED stream

\* lines 140-141: stop_stream() then close(); PortAudio delivers no callback
\* once stop_stream() has returned
StopCloseEffect == stream' = "closed" /\ UNCHANGED is_streaming

\* lines 136-141: stop() up to the closing of the device stream
PyAudioStopClose ==
    /\ ~StopInProgress
    /\ IF ~is_streaming \/ stream = "none"
       THEN UNCHANGED <<is_streaming, stream>>
       ELSE StopCloseEffect
    /\ UNCHANGED <<openable, opens, device_index, audio_buffer, buffer_index, written,
                   rd_pc, rd_view, latest>>
    /\ UNCHANGED <<clf, analysis_pc, callVars, clock, appVars, obsVars, syncVars>>

\* line 142: self.stream = None
PyAudioStopDrop ==
    /\ stream = "closed"
    /\ stream' = "none"
    /\ UNCHANGED <<openable, opens, device_index, is_streaming, audio_buffer,
                   buffer_index, written, rd_pc, rd_view, latest>>
    /\ UNCHANGED <<clf, analysis_pc, callVars, clock, appVars, obsVars, syncVars>>

\* line 143: self.is_streaming = False
PyAudioStopClear ==
    /\ stream = "none" /\ is_streaming
    /\ is_streaming' = FALSE
    /\ UNCHANGED <<openable, opens, device_index, stream, audio_buffer,
                   buffer_index, written, rd_pc, rd_view, latest>>
    /\ UNCHANGED <<clf, analysis_pc, callVars, clock, appVars, obsVars, syncVars>>

\* mutant: the write index is advanced without the modulo
MutNextIndex(i) == i + 1

\* line 93: (self.buffer_index + 1) % self.buffer_chunks
NextIndex(i) == (i + 1) % buffer_chunks

\* lines 75-95: the device callback; in_data holds the next counter value
AudioCallbackEffect ==
    /\ written' = written + 1
    /\ audio_buffer' = [audio_buffer EXCEPT ![buffer_index] = written + 1]
    /\ buffer_index' = NextIndex(buffer_index)

AudioCallback ==
    /\ stream = "open"
    /\ written < MaxCallbacks
    /\ AudioCallbackEffect
    /\ rd_view' = IF rd_pc = "flatten"
                  THEN Some([rd_view[1] EXCEPT !.callbacks = TRUE])
                  ELSE rd_view
    /\ UNCHANGED <<openable, opens, device_index, is_streaming, stream, rd_pc, latest>>
    /\ UNCHANGED <<clf, analysis_pc, callVars, clock, appVars, obsVars, syncVars>>

\* numpy slice buf[lo:hi], as the sequence of its chunks
Slice(buf, lo, hi) == [k \in 1..(hi - lo) |-> buf[lo + k - 1]]

\* lines 159-164: chunks_needed
ChunksNeeded(duration_ms) ==
    Min((sample_rate * duration_ms) \div (chunk_size * 1000), buffer_chunks)

\* line 168
StartIndex(duration_ms) == (buffer_index - ChunksNeeded(duration_ms)) % buffer_chunks

\* lines 166-177: the window selected under buffer_lock.  A contiguous window
\* is a numpy view of audio_buffer; a wrapped one is copied by np.vstack.
\* mutant: the two physical ranges of a wrapped window are stacked in
\* physical order
MutSelectWindow(duration_ms) ==
    LET start_index == StartIndex(duration_ms)
    IN  IF start_index < buffer_index
        THEN [kind |-> "view", lo |-> start_index, hi |-> buffer_index, data |-> << >>]
        ELSE [kind |-> "copy", lo |-> start_index, hi |-> buffer_index,
              data |-> Slice(audio_buffer, 0, buffer_index)
                       \o Slice(audio_buffer, start_index, buffer_chunks)]

SelectWindow(duration_ms) ==
    LET start_index == StartIndex(duration_ms)
    IN  IF start_index < buffer_index
        THEN [kind |-> "view", lo |-> start_index, hi |-> buffer_index, data |-> << >>]
        ELSE [kind |-> "copy", lo |-> start_index, hi |-> buffer_index,
              data |-> Slice(audio_buffer, start_index, buffer_chunks)
                       \o Slice(audio_buffer, 0, buffer_index)]

\* lines 179-182: flatten() reads the view's slots as they are now
Flatten(w) ==
    IF w.kind = "view" THEN Slice(audio_buffer, w.lo, w.hi) ELSE w.data

Durations == {0, 255, 256, default_duration_ms, 600, 768, 2000}

\* lines 147-177: get_latest_audio(duration_ms) up to the release of buffer_lock
GetLatestAudioSelect(d) ==
    /\ rd_pc = "idle"
    /\ IF ~is_streaming
       THEN /\ latest' = Some([duration_ms |-> d, streaming |-> FALSE, at |-> written,
                               index |-> buffer_index, callbacks |-> FALSE,
                               data |-> << >>])
            /\ UNCHANGED <<rd_pc, rd_view>>
       ELSE /\ rd_pc' = "flatten"
            /\ rd_view' = Some([duration_ms |-> d, at |-> written, callbacks |-> FALSE,
                                window |-> SelectWindow(d)])
            /\ latest' = None
    /\ UNCHANGED <<openable, opens, device_index, is_streaming, stream, audio_buffer,
                   buffer_index, written>>
    /\ UNCHANGED <<clf, analysis_pc, callVars, clock, appVars, obsVars, syncVars>>

\* lines 179-182: flatten and return (None when the data is empty)
GetLatestAudioReturn ==
    /\ rd_pc = "flatten"
    /\ latest' = Some([duration_ms |-> rd_view[1].duration_ms, streaming |-> TRUE,
                       at |-> rd_view[1].at, index |-> rd_view[1].window.hi,
                       callbacks |-> rd_view[1].callbacks,
                       data |-> Flatten(rd_view[1].window)])
    /\ rd_pc' = "idle"
    /\ rd_view' = None
    /\ UNCHANGED <<openable, opens, device_index, is_streaming, stream, audio_buffer,
                   buffer_index, written>>
    /\ UNCHANGED <<clf, analysis_pc, callVars, clock, appVars, obsVars, syncVars>>


\* ---------------------------------------------------------- actions
\* time.time() advances
Tick ==
    /\ clock < MaxClock
    /\ clock' = clock + 1
    /\ UNCHANGED <<clf, analysis_pc, callVars, appVars, audioVars, obsVars, syncVars>>

\* one call of instance i's _classify_activity on the drawn feature dicts
Classify(i) ==
    /\ entry[i] = "none"
    /\ activity' = [activity EXCEPT ![i] =
                        ClassifyActivity(clf[i], video_features, audio_features, clock)]
    /\ entry' = [entry EXCEPT ![i] = "classify"]
    /\ UNCHANGED <<clf, analysis_pc, video_features, audio_features, clock, appVars,
                   audioVars, obsVars, syncVars>>

\* one direct call of instance i's _rule_based_classification
Rules(i) ==
    /\ entry[i] = "none"
    /\ activity' = [activity EXCEPT ![i] =
                        Some(RuleBasedClassification(clf[i], video_features,
                                                     audio_features, clock))]
    /\ entry' = [entry EXCEPT ![i] = "rules"]
    /\ UNCHANGED <<clf, analysis_pc, video_features, audio_features, clock, appVars,
                   audioVars, obsVars, syncVars>>


\* ---------------------------------------------------------- OBSCapture
Threads == 1..MaxThreads
SourceNames == {"cam"}
NoName == "none"       \* source_name=None

\* lines 68-105: _get_sources(), given the values self.connected and
\* self.client hold when it runs; it returns at once unless connected
GetSources(conn, cl, current, backend) ==
    IF ~conn \/ ~cl THEN current ELSE backend

\* lines 44-66: _connect(); _get_sources() runs before self.connected is set
Connect(reachable, backend) ==
    IF reachable
    THEN [client |-> TRUE,
          video_sources |-> GetSources(FALSE, TRUE, << >>, backend),
          connected |-> TRUE]
    ELSE [client |-> FALSE, video_sources |-> << >>, connected |-> FALSE]

\* lines 20-42: the fields after __init__ against the environment's backend
NewOBSCapture ==
    LET c == Connect(obs_reachable, backend_video)
    IN  /\ connected = c.connected
        /\ client = c.client
        /\ video_sources = c.video_sources
        /\ current_frame = 0
        /\ frame_time = 0
        /\ frames_captured = 0
        /\ is_capturing = FALSE
        /\ cap_pc = [t \in Threads |-> "none"]
        /\ cap_src = [t \in Threads |-> NoName]

\* lines 68-105: a call of _get_sources() made after construction, as a
\* caller that re-reads the source list makes; the application makes none
RefreshSources ==
    /\ video_sources' = GetSources(connected, client, video_sources, backend_video)
    /\ UNCHANGED <<obs_reachable, backend_video, connected, client, current_frame,
                   frame_time, frames_captured, is_capturing, cap_pc, cap_src>>
    /\ UNCHANGED <<clf, analysis_pc, callVars, clock, appVars, audioVars, syncVars>>

\* lines 116-126: the source capture_frame asks the backend for, NoName if none
ResolveSource(source_name) ==
    IF source_name # NoName THEN source_name
    ELSE IF video_sources # << >> THEN video_sources[1] ELSE NoName

\* lines 128-194: what the backend does with a screenshot request: it
\* answers with image data, answers without image data, or raises
BackendAnswers == {"image", "no_data", "error"}

\* lines 161-191: the second request (compression_quality=75) is made only
\* when the first one raised; a screenshot is stored when the request that
\* was answered carries image data
Delivers(first, second) ==
    \/ first = "image"
    \/ first = "error" /\ second = "image"

\* lines 116-118, 123-126, 157-159, 192-194: a failed capture_frame returns
\* None and assigns nothing
\* mutant: a failed capture_frame drops the frame and keeps its timestamp
MutFailedTickDropsFrame ==
    /\ current_frame' = 0
    /\ UNCHANGED <<frame_time, frames_captured>>
MutFailedTickEffect ==
    /\ current_frame' = 0
    /\ frame_time' = 0
    /\ UNCHANGED frames_captured
FailedTickEffect ==
    UNCHANGED <<current_frame, frame_time, frames_captured>>

\* lines 107-194: capture_frame(source_name).  The backend answers with a
\* screenshot or fails (error on both attempts, or no image data).
CaptureFrameEffect(source_name) ==
    LET asked == /\ connected /\ client
                 /\ ResolveSource(source_name) \in SourceNames
        answers == IF asked
                   THEN {Delivers(first, second) : first, second \in BackendAnswers}
                   ELSE {FALSE}
    IN  \E delivered \in answers :
            IF delivered
            THEN /\ frames_captured < MaxFrames
                 /\ frames_captured' = frames_captured + 1
                 /\ current_frame' = frames_captured + 1
                 /\ frame_time' = clock
            ELSE FailedTickEffect

\* a direct call of capture_frame
CaptureFrame(source_name) ==
    /\ CaptureFrameEffect(source_name)
    /\ UNCHANGED <<obs_reachable, backend_video, connected, client, video_sources,
                   is_capturing, cap_pc, cap_src>>
    /\ UNCHANGED <<clf, analysis_pc, callVars, clock, appVars, audioVars, syncVars>>

FreeThread(pc) == CHOOSE t \in Threads : pc[t] = "none" /\ \A u \in Threads : pc[u] = "none" => t <= u
HasFreeThread(pc) == \E t \in Threads : pc[t] = "none"

\* lines 196-225: start_capture(source_name)
StartCaptureEffect(source_name) ==
    IF is_capturing \/ ResolveSource(source_name) = NoName
    THEN UNCHANGED <<is_capturing, cap_pc, cap_src>>
    ELSE /\ HasFreeThread(cap_pc)
         /\ is_capturing' = TRUE
         /\ cap_pc' = [cap_pc EXCEPT ![FreeThread(cap_pc)] = "run"]
         /\ cap_src' = [cap_src EXCEPT ![FreeThread(cap_pc)] = ResolveSource(source_name)]

\* lines 238-246: stop_capture(); join(timeout=1.0) does not wait for the loop
StopCaptureEffect ==
    /\ is_capturing' = FALSE
    /\ UNCHANGED <<cap_pc, cap_src>>

StartCapture(source_name) ==
    /\ StartCaptureEffect(source_name)
    /\ UNCHANGED <<obs_reachable, backend_video, connected, client, video_sources,
                   current_frame, frame_time, frames_captured>>
    /\ UNCHANGED <<clf, analysis_pc, callVars, clock, appVars, audioVars, syncVars>>

StopCapture ==
    /\ StopCaptureEffect
    /\ UNCHANGED <<obs_reachable, backend_video, connected, client, video_sources,
                   current_frame, frame_time, frames_captured>>
    /\ UNCHANGED <<clf, analysis_pc, callVars, clock, appVars, audioVars, syncVars>>

\* lines 227-236: one iteration of _capture_loop in thread t
CaptureLoop(t) ==
    /\ cap_pc[t] = "run"
    /\ IF is_capturing
       THEN /\ CaptureFrameEffect(cap_src[t])
            /\ UNCHANGED <<cap_pc, cap_src>>
       ELSE /\ cap_pc' = [cap_pc EXCEPT ![t] = "none"]
            /\ cap_src' = [cap_src EXCEPT ![t] = NoName]
            /\ UNCHANGED <<current_frame, frame_time, frames_captured>>
    /\ UNCHANGED <<obs_reachable, backend_video, connected, client, video_sources,
                   is_capturing>>
    /\ UNCHANGED <<clf, analysis_pc, callVars, clock, appVars, audioVars, syncVars>>

\* mutant: the loop goes on whatever the flag
MutCaptureContinues == TRUE

\* line 234: while self.is_capturing
CaptureContinues == is_capturing

\* line 234: the loop test of _capture_loop in thread t, taken on its own
CaptureLoopTest(t) ==
    /\ cap_pc[t] = "run"
    /\ IF CaptureContinues
       THEN /\ cap_pc' = [cap_pc EXCEPT ![t] = "body"]
            /\ UNCHANGED cap_src
       ELSE /\ cap_pc' = [cap_pc EXCEPT ![t] = "none"]
            /\ cap_src' = [cap_src EXCEPT ![t] = NoName]
    /\ UNCHANGED <<obs_reachable, backend_video, connected, client, video_sources,
                   current_frame, frame_time, frames_captured, is_capturing>>
    /\ UNCHANGED <<clf, analysis_pc, callVars, clock, appVars, audioVars, syncVars>>

\* lines 235-236: the body of the iteration, capture_frame and the sleep
CaptureLoopBody(t) ==
    /\ cap_pc[t] = "body"
    /\ CaptureFrameEffect(cap_src[t])
    /\ cap_pc' = [cap_pc EXCEPT ![t] = "run"]
    /\ UNCHANGED <<obs_reachable, backend_video, connected, client, video_sources,
                   is_capturing, cap_src>>
    /\ UNCHANGED <<clf, analysis_pc, callVars, clock, appVars, audioVars, syncVars>>

\* lines 257-262: disconnect()
Disconnect ==
    /\ StopCaptureEffect
    /\ connected' = FALSE
    /\ client' = FALSE
    /\ UNCHANGED <<obs_reachable, backend_video, video_sources, current_frame,
                   frame_time, frames_captured>>
    /\ UNCHANGED <<clf, analysis_pc, callVars, clock, appVars, audioVars, syncVars>>

\* lines 248-255
ObsGetCurrentFrame == <<current_frame, frame_time>>

\* --------------------------------------------------------- SyncManager
\* lines 28-47: the fields after __init__
NewSyncManager ==
    /\ is_running = FALSE
    /\ sync_pc = [t \in Threads |-> "none"]
    /\ s_video = [t \in Threads |-> 0]
    /\ s_audio = [t \in Threads |-> None]
    /\ s_tick = [t \in Threads |-> 0]
    /\ sync_ticks = 0
    /\ sync_lock = 0
    /\ current_video_frame = None
    /\ current_audio_data = None
    /\ last_sync_time = 0
    /\ sync_result = None
    /\ stop_pc = "idle"

\* stream_processor.py lines 27-50: the resized, enhanced copy made in tick k
ProcessVideo(frame, k) ==
    IF frame = 0 THEN None ELSE Some([frame |-> frame, tick |-> k])

\* stream_processor.py lines 52-72: the peak-normalised copy made in tick k
ProcessAudio(data, k) ==
    IF data = None \/ Len(data) = 0 THEN None ELSE Some([window |-> data, tick |-> k])

\* pyaudio_capture.py lines 147-182: get_latest_audio() with no callback
\* between the selection of the window and flatten()
GetLatestAudio(duration_ms) ==
    IF ~is_streaming THEN None ELSE Flatten(SelectWindow(duration_ms))

\* mutant: start() does not test the flag
MutStartReturnsEarly == FALSE

\* lines 53-55: the early return of start()
StartReturnsEarly == is_running

\* lines 51-76: start(); start() and stop() are called by the one thread
\* that owns the manager, so a start() does not begin inside a stop()
SyncStart ==
    /\ stop_pc = "idle"
    /\ IF StartReturnsEarly
       THEN UNCHANGED <<is_running, sync_pc, opens, device_index, is_streaming, stream,
                        is_capturing, cap_pc, cap_src>>
       ELSE /\ PyAudioStartEffect
            /\ IF video_sources # << >>
               THEN StartCaptureEffect(video_sources[1])
               ELSE UNCHANGED <<is_capturing, cap_pc, cap_src>>
            /\ HasFreeThread(sync_pc)
            /\ is_running' = TRUE
            /\ sync_pc' = [sync_pc EXCEPT ![FreeThread(sync_pc)] = "top"]
    /\ UNCHANGED <<s_video, s_audio, s_tick, sync_ticks, sync_lock, snapshotVars,
                   sync_result, stop_pc>>
    /\ UNCHANGED <<obs_reachable, backend_video, connected, client, video_sources,
                   current_frame, frame_time, frames_captured>>
    /\ UNCHANGED <<openable, audio_buffer, buffer_index, written, rd_pc, rd_view, latest>>
    /\ UNCHANGED <<clf, analysis_pc, callVars, clock, appVars>>

\* mutant: stop() does not test the flag
MutStopReturnsEarly == FALSE

\* lines 164-165: the early return of stop()
StopReturnsEarly == ~is_running

\* lines 162-178: stop(); join(timeout=1.0) does not wait for the loop
SyncStop ==
    /\ stop_pc = "idle"
    /\ IF StopReturnsEarly
       THEN UNCHANGED <<is_running, is_streaming, stream, is_capturing, cap_pc, cap_src>>
       ELSE /\ is_running' = FALSE
            /\ PyAudioStopEffect
            /\ StopCaptureEffect
    /\ UNCHANGED <<sync_pc, s_video, s_audio, s_tick, sync_ticks, sync_lock,
                   snapshotVars, sync_result, stop_pc>>
    /\ UNCHANGED <<obs_reachable, backend_video, connected, client, video_sources,
                   current_frame, frame_time, frames_captured>>
    /\ UNCHANGED <<openable, opens, device_index, audio_buffer, buffer_index, written,
                   rd_pc, rd_view, latest>>
    /\ UNCHANGED <<clf, analysis_pc, callVars, clock, appVars>>

\* mutant: stop() leaves the flag set
MutClearRunning == UNCHANGED is_running

\* line 168: self.is_running = False
ClearRunning == is_running' = FALSE

\* lines 164-168 of stop(): the early return, else the flag is cleared
SyncStopFlag ==
    /\ stop_pc = "idle"
    /\ IF StopReturnsEarly
       THEN UNCHANGED <<is_running, stop_pc>>
       ELSE ClearRunning /\ stop_pc' = "join"
    /\ UNCHANGED <<sync_pc, s_video, s_audio, s_tick, sync_ticks, sync_lock,
                   snapshotVars, sync_result>>
    /\ UNCHANGED <<clf, analysis_pc, callVars, clock, appVars, audioVars, obsVars>>

\* lines 170-172 of stop(): join(timeout=1.0) returns when the loop thread has
\* exited or after one second, whichever comes first
SyncStopJoin ==
    /\ stop_pc = "join"
    /\ stop_pc' = "audio"
    /\ UNCHANGED <<is_running, sync_pc, s_video, s_audio, s_tick, sync_ticks, sync_lock,
                   snapshotVars, sync_result>>
    /\ UNCHANGED <<clf, analysis_pc, callVars, clock, appVars, audioVars, obsVars>>

\* line 175 of stop(): self.pyaudio_capture.stop()
SyncStopAudio ==
    /\ stop_pc = "audio"
    /\ PyAudioStopEffect
    /\ stop_pc' = "video"
    /\ UNCHANGED <<is_running, sync_pc, s_video, s_audio, s_tick, sync_ticks, sync_lock,
                   snapshotVars, sync_result>>
    /\ UNCHANGED <<openable, opens, device_index, audio_buffer, buffer_index, written,
                   rd_pc, rd_view, latest>>
    /\ UNCHANGED <<clf, analysis_pc, callVars, clock, appVars, obsVars>>

\* line 176 of stop(): self.obs_capture.stop_capture(), and the return
SyncStopVideo ==
    /\ stop_pc = "video"
    /\ StopCaptureEffect
    /\ stop_pc' = "idle"
    /\ UNCHANGED <<is_running, sync_pc, s_video, s_audio, s_tick, sync_ticks, sync_lock,
                   snapshotVars, sync_result>>
    /\ UNCHANGED <<obs_reachable, backend_video, connected, client, video_sources,
                   current_frame, frame_time, frames_captured>>
    /\ UNCHANGED <<clf, analysis_pc, callVars, clock, appVars, audioVars>>

\* lines 85-87: the loop test and the read of the video source's frame
SyncLoopTop(t) ==
    /\ sync_pc[t] = "top"
    /\ IF is_running
       THEN /\ s_video' = [s_video EXCEPT ![t] = ObsGetCurrentFrame[1]]
            /\ sync_pc' = [sync_pc EXCEPT ![t] = "audio"]
            /\ UNCHANGED s_audio
       ELSE /\ sync_pc' = [sync_pc EXCEPT ![t] = "none"]
            /\ s_video' = [s_video EXCEPT ![t] = 0]
            /\ s_audio' = [s_audio EXCEPT ![t] = None]
    /\ UNCHANGED <<is_running, s_tick, sync_ticks, sync_lock, snapshotVars,
                   sync_result, stop_pc>>
    /\ UNCHANGED <<clf, analysis_pc, callVars, clock, appVars, audioVars, obsVars>>

\* mutant: the test of line 93 reads `or`
MutBothPresent(video_frame, audio_data) == video_frame # 0 \/ audio_data # None

\* mutant: the test of line 93 forgets the audio
MutVideoPresent(video_frame, audio_data) == video_frame # 0

\* line 93
BothPresent(video_frame, audio_data) == video_frame # 0 /\ audio_data # None

\* lines 89-96 and 103-105: the read of the audio window and the test; a tick
\* with both present processes them, any other tick goes to sleep
SyncReadAudio(t) ==
    /\ sync_pc[t] = "audio"
    /\ LET audio_data == GetLatestAudio(default_duration_ms)
       IN  /\ s_audio' = [s_audio EXCEPT ![t] = audio_data]
           /\ IF BothPresent(s_video[t], audio_data)
              THEN /\ sync_ticks < MaxTicks
                   /\ sync_ticks' = sync_ticks + 1
                   /\ s_tick' = [s_tick EXCEPT ![t] = sync_ticks + 1]
                   /\ sync_pc' = [sync_pc EXCEPT ![t] = "lock"]
              ELSE /\ sync_pc' = [sync_pc EXCEPT ![t] = "top"]
                   /\ UNCHANGED <<sync_ticks, s_tick>>
    /\ UNCHANGED <<is_running, s_video, sync_lock, snapshotVars, sync_result, stop_pc>>
    /\ UNCHANGED <<clf, analysis_pc, callVars, clock, appVars, audioVars, obsVars>>

\* mutant: the writer enters lines 100-102 without taking sync_lock
MutSyncLockAcquire(t) == UNCHANGED sync_lock

\* line 99: with self.sync_lock
SyncLockAcquire(t) == sync_lock = 0 /\ sync_lock' = t

\* lines 99-100: enter the critical section and replace the frame
SyncWriteVideo(t) ==
    /\ sync_pc[t] = "lock"
    /\ SyncLockAcquire(t)
    /\ current_video_frame' = ProcessVideo(s_video[t], s_tick[t])
    /\ sync_pc' = [sync_pc EXCEPT ![t] = "wAudio"]
    /\ UNCHANGED <<is_running, s_video, s_audio, s_tick, sync_ticks,
                   current_audio_data, last_sync_time, sync_result, stop_pc>>
    /\ UNCHANGED <<clf, analysis_pc, callVars, clock, appVars, audioVars, obsVars>>

\* line 101
SyncWriteAudio(t) ==
    /\ sync_pc[t] = "wAudio"
    /\ current_audio_data' = ProcessAudio(s_audio[t], s_tick[t])
    /\ sync_pc' = [sync_pc EXCEPT ![t] = "wTime"]
    /\ UNCHANGED <<is_running, s_video, s_audio, s_tick, sync_ticks, sync_lock,
                   current_video_frame, last_sync_time, sync_result, stop_pc>>
    /\ UNCHANGED <<clf, analysis_pc, callVars, clock, appVars, audioVars, obsVars>>

\* lines 102-105: the timestamp, the release of the lock and the sleep; the
\* tick's locals are dead from here until the next iteration assigns them
SyncWriteTime(t) ==
    /\ sync_pc[t] = "wTime"
    /\ last_sync_time' = clock
    /\ sync_lock' = IF sync_lock = t THEN 0 ELSE sync_lock
    /\ sync_pc' = [sync_pc EXCEPT ![t] = "top"]
    /\ s_video' = [s_video EXCEPT ![t] = 0]
    /\ s_audio' = [s_audio EXCEPT ![t] = None]
    /\ s_tick' = [s_tick EXCEPT ![t] = 0]
    /\ UNCHANGED <<is_running, sync_ticks,
                   current_video_frame, current_audio_data, sync_result, stop_pc>>
    /\ UNCHANGED <<clf, analysis_pc, callVars, clock, appVars, audioVars, obsVars>>

\* lines 113-116: the body of get_sync_data()
SyncData ==
    IF current_video_frame = None \/ current_audio_data = None
    THEN [video |-> None, audio |-> None, time |-> 0]
    ELSE [video |-> current_video_frame, audio |-> current_audio_data,
          time |-> last_sync_time]

\* lines 107-116: a get_sync_data() call; it waits for sync_lock
GetSyncData ==
    /\ sync_lock = 0
    /\ sync_result' = Some(SyncData)
    /\ UNCHANGED <<is_running, sync_pc, s_video, s_audio, s_tick, sync_ticks, sync_lock,
                   snapshotVars, stop_pc>>
    /\ UNCHANGED <<clf, analysis_pc, callVars, clock, appVars, audioVars, obsVars>>

\* a raw frame of the video source as a caller receives it
RawFrame(f) == Some([frame |-> f])

\* no get_current_frame() call stands between its two reads
NoFrameCall == IF frame_call = None THEN TRUE ELSE frame_call[1].pc = "done"

\* mutant: the test of line 127 is inverted
MutVideoSourceEmpty(frame) == frame # 0

\* line 127: if frame is None
VideoSourceEmpty(frame) == frame = 0

\* sync_manager.py lines 125-127 and 132: get_current_frame() reads the video
\* source's frame (obs_capture.py lines 248-255, under frame_lock) and returns
\* it unless there is none
GetCurrentFrameRead ==
    /\ NoFrameCall
    /\ LET frame == ObsGetCurrentFrame[1]
       IN  IF VideoSourceEmpty(frame)
           THEN frame_call' = Some([pc |-> "fallback", obs |-> frame])
           ELSE frame_call' = Some([pc |-> "done", obs |-> frame,
                                    fallback |-> FALSE,
                                    snapshot |-> current_video_frame,
                                    returned |-> RawFrame(frame)])
    /\ UNCHANGED <<clf, analysis_pc, callVars, clock, svcVars, errVars, apiVars, unitVars,
                   audioVars, obsVars, syncVars>>

\* sync_manager.py lines 129-132: the fallback, the snapshot's frame read
\* under sync_lock, and the return
GetCurrentFrameFallback ==
    /\ IF frame_call = None THEN FALSE ELSE frame_call[1].pc = "fallback"
    /\ sync_lock = 0
    /\ frame_call' = Some([pc |-> "done", obs |-> frame_call[1].obs,
                           fallback |-> TRUE,
                           snapshot |-> current_video_frame,
                           returned |-> current_video_frame])
    /\ UNCHANGED <<clf, analysis_pc, callVars, clock, svcVars, errVars, apiVars, unitVars,
                   audioVars, obsVars, syncVars>>

\* sync_manager.py lines 118-132: get_current_frame() as one read
GetCurrentFrame ==
    IF VideoSourceEmpty(ObsGetCurrentFrame[1])
    THEN current_video_frame
    ELSE RawFrame(ObsGetCurrentFrame[1])

\* mutant: get_current_audio() prefers the live device to the snapshot
MutGetCurrentAudio == IF is_streaming THEN Some(<<>>) ELSE current_audio_data

\* sync_manager.py lines 134-141: get_current_audio() returns the snapshot's
\* audio, read under sync_lock
GetCurrentAudio == current_audio_data

\* sync_manager.py lines 180-187
IsVideoAvailable == GetCurrentFrame # None

\* sync_manager.py lines 189-196
IsAudioAvailable == GetCurrentAudio # None

\* ------------------------------------------- ActivityClassifier loop
\* activity_classifier.py lines 137-179: what _extract_video_features can
\* return for a frame, {} when the extraction raises
ExtractedVideo ==
    {EmptyVideo} \cup {[std_intensity |-> sd, mean_intensity |-> m, extra |-> TRUE] :
                          sd \in StdVals, m \in MeanVals}

\* the energy of a window normalised to peak 1 whose samples all sit at the peak
FullScaleEnergy == 1000

\* activity_classifier.py lines 181-218: what _extract_audio_features can
\* return for a window, {} when the extraction raises
ExtractedAudio ==
    {EmptyAudio} \cup {[energy |-> e, zero_crossing_rate |-> z, extra |-> TRUE] :
                          e \in EnergyVals \cup {FullScaleEnergy}, z \in ZcrVals}

\* activity_classifier.py lines 120-124: what feature extraction followed by
\* _classify_activity can give the instance main.py builds (no model), for
\* every pair of extracted dicts, before the result is stamped with the time
ExtractedOutcomes ==
    {ClassifyActivity(NewClassifier("none", 600, 60), vf, af, 0) :
        vf \in ExtractedVideo, af \in ExtractedAudio}

\* line 315 of _rule_based_classification: "timestamp": int(time.time())
At(a, now) == IF a = None THEN None ELSE Some([a[1] EXCEPT !.timestamp = now])

\* mutant: the test of lines 115-117 is missing
MutFoundEmpty(data) == FALSE

\* activity_classifier.py lines 115-117: a side of the tuple is None
FoundEmpty(data) == data.video = None \/ data.audio = None

\* activity_classifier.py lines 126-135: publish a truthy activity a under
\* activity_lock and return it, else return None
AnalyzeReturning(i, a) ==
    IF a # None
    THEN clf' = [clf EXCEPT ![i].last_activity = a,
                            ![i].last_analysis_time = clock]
    ELSE UNCHANGED clf

\* activity_classifier.py lines 106-135: analyze_current_activity() of the
\* instance holding the SyncManager; its get_sync_data() waits for sync_lock
AnalyzeCurrentActivityEffect(i) ==
    /\ sync_lock = 0
    /\ IF FoundEmpty(SyncData)
       THEN AnalyzeReturning(i, None)
       ELSE \E a \in ExtractedOutcomes : AnalyzeReturning(i, At(a, clock))

\* api_routes.py line 178: an on-demand analyze_current_activity() call; entry
\* and activity record the call and the value it returned
AnalyzeCurrentActivity ==
    /\ sync_lock = 0
    /\ IF FoundEmpty(SyncData)
       THEN AnalyzeReturning(1, None) /\ activity' = [activity EXCEPT ![1] = None]
       ELSE \E a \in ExtractedOutcomes :
              /\ AnalyzeReturning(1, At(a, clock))
              /\ activity' = [activity EXCEPT ![1] = At(a, clock)]
    /\ entry' = [entry EXCEPT ![1] = "analyze"]
    /\ UNCHANGED <<analysis_pc, video_features, audio_features, clock, appVars, audioVars,
                   obsVars, syncVars>>

\* activity_classifier.py lines 64-80: start_analysis_loop()
StartAnalysisLoop ==
    /\ IF clf[1].is_analyzing
       THEN UNCHANGED <<clf, analysis_pc>>
       ELSE /\ HasFreeThread(analysis_pc)
            /\ clf' = [clf EXCEPT ![1].is_analyzing = TRUE]
            /\ analysis_pc' = [analysis_pc EXCEPT ![FreeThread(analysis_pc)] = "run"]
    /\ UNCHANGED <<callVars, clock, appVars, audioVars, obsVars, syncVars>>

\* activity_classifier.py lines 96-104: stop_analysis_loop(); join(timeout=1.0)
\* does not wait for a loop sleeping analysis_interval seconds
StopAnalysisLoop ==
    /\ clf' = [clf EXCEPT ![1].is_analyzing = FALSE]
    /\ UNCHANGED <<analysis_pc, callVars, clock, appVars, audioVars, obsVars, syncVars>>

\* activity_classifier.py lines 82-94: one iteration of _analysis_loop
AnalysisLoop(t) ==
    /\ analysis_pc[t] = "run"
    /\ IF clf[1].is_analyzing
       THEN /\ AnalyzeCurrentActivityEffect(1)
            /\ UNCHANGED analysis_pc
       ELSE /\ analysis_pc' = [analysis_pc EXCEPT ![t] = "none"]
            /\ UNCHANGED clf
    /\ UNCHANGED <<callVars, clock, appVars, audioVars, obsVars, syncVars>>

\* activity_classifier.py line 84: the loop test of _analysis_loop in thread
\* t, taken on its own
AnalysisLoopTest(t) ==
    /\ analysis_pc[t] = "run"
    /\ analysis_pc' = [analysis_pc EXCEPT ![t] =
                           IF clf[1].is_analyzing THEN "body" ELSE "none"]
    /\ UNCHANGED <<clf, callVars, clock, appVars, audioVars, obsVars, syncVars>>

\* activity_classifier.py lines 85-94: the body of the iteration, the analysis
\* and the sleep (a shorter one after an exception)
AnalysisLoopBody(t) ==
    /\ analysis_pc[t] = "body"
    /\ AnalyzeCurrentActivityEffect(1)
    /\ analysis_pc' = [analysis_pc EXCEPT ![t] = "run"]
    /\ UNCHANGED <<callVars, clock, appVars, audioVars, obsVars, syncVars>>

\* sync_manager.py lines 85-105: an exception raised in the iteration of
\* _sync_loop, after the frame was read and before the snapshot is written
\* (lines 90-96).  Nothing in the loop catches it: it leaves the thread's
\* target function and the thread ends, self.is_running stays as it is.
SyncLoopRaise(t) ==
    /\ sync_pc[t] = "audio"
    /\ sync_pc' = [sync_pc EXCEPT ![t] = "none"]
    /\ s_video' = [s_video EXCEPT ![t] = 0]
    /\ s_audio' = [s_audio EXCEPT ![t] = None]
    /\ UNCHANGED <<is_running, s_tick, sync_ticks, sync_lock, snapshotVars,
                   sync_result, stop_pc>>
    /\ UNCHANGED <<clf, analysis_pc, callVars, clock, appVars, audioVars, obsVars>>

\* obs_capture.py lines 234-236: an exception that escapes capture_frame or
\* the sleep in the iteration of _capture_loop.  Nothing in the loop catches
\* it: the thread ends, self.is_capturing stays as it is.
CaptureLoopRaise(t) ==
    /\ cap_pc[t] = "body"
    /\ cap_pc' = [cap_pc EXCEPT ![t] = "none"]
    /\ cap_src' = [cap_src EXCEPT ![t] = NoName]
    /\ UNCHANGED <<obs_reachable, backend_video, connected, client, video_sources,
                   current_frame, frame_time, frames_captured, is_capturing>>
    /\ UNCHANGED <<clf, analysis_pc, callVars, clock, appVars, audioVars, syncVars>>

\* activity_classifier.py lines 85-94: an exception raised by
\* analyze_current_activity() in the iteration of _analysis_loop before it
\* assigned anything; the except clause logs it, sleeps and the loop goes on
AnalysisLoopRaise(t) ==
    /\ analysis_pc[t] = "body"
    /\ analysis_pc' = [analysis_pc EXCEPT ![t] = "run"]
    /\ UNCHANGED <<clf, callVars, clock, appVars, audioVars, obsVars, syncVars>>

\* activity_classifier.py lines 319-326
GetCurrentActivity(i) == clf[i].last_activity

\* ------------------------------------------------ ExternalServiceClient
\* what a request can end in: a response whose status is fine and whose body
\* parses, or a RequestException (no connection, timeout, HTTP error status)
Responses == {[status |-> "ok"], [activities |-> <<"a1">>]}
RequestOutcomes == {[ok |-> TRUE, response |-> r] : r \in Responses}
                       \cup {[ok |-> FALSE]}
ServiceOps == {"send_activity", "get_activities"}

\* external_service.py lines 17-31: the state after __init__
NewExternalServiceClient(count, delay) ==
    [retry_count |-> count, retry_delay |-> delay, pc |-> "idle", op |-> "none",
     attempt |-> 0, outcomes |-> << >>, sleeps |-> << >>, result |-> None]

\* lines 55-58 and 103-108: what the method returns for a response
ServiceReturns(op, r) ==
    IF op = "send_activity" THEN Some(r)
    ELSE IF "activities" \in DOMAIN r THEN Some(r.activities) ELSE Some(<< >>)

\* lines 42 and 91: for attempt in range(self.retry_count), the call enters
\* the loop or, with nothing to iterate, falls off the end and returns None
ServiceCall(op) ==
    /\ service.pc \in {"idle", "done"}
    /\ service' = [service EXCEPT
                      !.op = op,
                      !.attempt = 0,
                      !.outcomes = << >>,
                      !.sleeps = << >>,
                      !.result = None,
                      !.pc = IF service.retry_count > 0 THEN "request" ELSE "done"]
    /\ UNCHANGED <<clf, analysis_pc, callVars, clock, frameVars, errVars, apiVars, unitVars,
                   audioVars, obsVars, syncVars>>

\* mutant: every failed attempt is followed by a sleep
MutMoreAttempts(a) == TRUE

\* lines 63 and 113: if attempt < self.retry_count - 1
MoreAttempts(a) == a < service.retry_count - 1

\* lines 43-67 and 92-117: one request of the loop and what follows it, the
\* return of the result or the except clause
ServiceRequest ==
    /\ service.pc = "request"
    /\ \E o \in RequestOutcomes :
          IF o.ok
          THEN service' = [service EXCEPT
                              !.outcomes = Append(@, o),
                              !.result = ServiceReturns(service.op, o.response),
                              !.pc = "done"]
          ELSE service' = [service EXCEPT
                              !.outcomes = Append(@, o),
                              !.result = None,
                              !.pc = IF MoreAttempts(service.attempt)
                                     THEN "sleep" ELSE "done"]
    /\ UNCHANGED <<clf, analysis_pc, callVars, clock, frameVars, errVars, apiVars, unitVars,
                   audioVars, obsVars, syncVars>>

\* lines 64 and 114: time.sleep(self.retry_delay), then the next value of the
\* loop variable, or the end of the loop and the implicit return of None
ServiceSleep ==
    /\ service.pc = "sleep"
    /\ service' = [service EXCEPT
                      !.sleeps = Append(@, service.retry_delay),
                      !.attempt = @ + 1,
                      !.pc = IF service.attempt + 1 < service.retry_count
                             THEN "request" ELSE "done"]
    /\ UNCHANGED <<clf, analysis_pc, callVars, clock, frameVars, errVars, apiVars, unitVars,
                   audioVars, obsVars, syncVars>>

\* ------------------------------------------------------- ErrorSystem
\* the records a log file found at construction can hold, newest first; the
\* records logged later are numbered from 1
ErrorRecord(n, type) == [id |-> n, type |-> type]
OldRecords == [k \in 1..(MaxKept + 1) |-> ErrorRecord(0 - k, "old")]
Prefix(seq, n) == SubSeq(seq, 1, IF n < Len(seq) THEN n ELSE Len(seq))
ErrorTypes == {"capture", "database"}
ExceptionTypes == {"ValueError"}

\* error_system.py lines 43-57: _load_errors(), self.errors after it
LoadErrors(file) == IF file = None THEN << >> ELSE file[1]

\* lines 19-41: the state after __init__ with the log file as found
NewErrorSystem(file, max) ==
    [max_errors |-> max, file |-> file, errors |-> LoadErrors(file), logged |-> 0]

\* lines 59-66: _save_errors() rewrites the file with the list: the file after
SaveErrors(list) == Some(list)

\* lines 98-99: the list is cut to max_errors
Truncated(list) ==
    IF Len(list) > error_system.max_errors
    THEN Prefix(list, error_system.max_errors) ELSE list

\* lines 80-102: the record goes first, the list is cut and saved
LogErrorEffect(error_type) ==
    /\ error_system.logged < MaxLogged
    /\ LET record == ErrorRecord(error_system.logged + 1, error_type)
           kept == Truncated(<<record>> \o error_system.errors)
       IN  error_system' = [error_system EXCEPT
                               !.logged = @ + 1,
                               !.errors = kept,
                               !.file = SaveErrors(kept)]

\* lines 68-106: log_error(error_type, message, details, source)
LogError(error_type) ==
    /\ LogErrorEffect(error_type)
    /\ UNCHANGED <<clf, analysis_pc, callVars, clock, frameVars, svcVars, apiVars, unitVars,
                   audioVars, obsVars, syncVars>>

\* lines 108-122: log_exception(exception, source) takes the type from the
\* exception's class and calls log_error
LogException(exception) ==
    /\ LogErrorEffect(exception)
    /\ UNCHANGED <<clf, analysis_pc, callVars, clock, frameVars, svcVars, apiVars, unitVars,
                   audioVars, obsVars, syncVars>>

\* lines 147-160: clear_errors()
ClearErrors ==
    /\ error_system' = [error_system EXCEPT
                           !.errors = << >>,
                           !.file = SaveErrors(<< >>)]
    /\ UNCHANGED <<clf, analysis_pc, callVars, clock, frameVars, svcVars, apiVars, unitVars,
                   audioVars, obsVars, syncVars>>

\* ------------------------------------------------- POST /api/classify
\* db_manager.py lines 137-143: the row save_activity inserts
Row(activity_type, confidence, duration, metadata, now) ==
    [timestamp |-> now, activity_type |-> activity_type, confidence |-> confidence,
     duration |-> duration, metadata |-> metadata]

\* db_manager.py lines 75-120: _create_dummy_data() fills the empty table with
\* 672 generated rows, written before the application starts; one stands for
\* them
CreateDummyData == <<Row("inactif", 1, 60, [source |-> "dummy_data"], 0)>>

\* db_manager.py lines 34-65: the table after DBManager(), never empty; no
\* answer yet
ApiAtStart == [storage |-> CreateDummyData, response |-> None]

\* db_manager.py lines 134-151: the INSERT is committed, or sqlite3 raises
\* (database locked, disk full, file not writable) and nothing is stored
DbOutcomes == {"committed", "raises"}

\* mutant: the handler takes the storing branch whatever the analysis returned
MutProduced(a) == TRUE

\* api_routes.py line 180: if activity
Produced(a) == a # None

\* api_routes.py lines 199-204: the answer of the except clause
ErrorAnswer == Some([status |-> 500, success |-> FALSE, activity |-> None])

\* api_routes.py lines 180-204: what manual_classification() does with the
\* value a the analysis returned; in the storing branch activity['type'] of
\* None raises, and so may save_activity
ManualClassificationAnswer(a) ==
    IF Produced(a)
    THEN IF a = None
         THEN api' = [api EXCEPT !.response = ErrorAnswer]
         ELSE \E db \in DbOutcomes :
                IF db = "committed"
                THEN /\ Len(api.storage) < Len(CreateDummyData) + MaxRows
                     /\ api' = [storage |-> Append(api.storage,
                                                   Row(a[1].type, a[1].confidence,
                                                       a[1].duration, a[1], clock)),
                                response |-> Some([status |-> 200, success |-> TRUE,
                                                   activity |-> a])]
                ELSE api' = [api EXCEPT !.response = ErrorAnswer]
    ELSE api' = [api EXCEPT
                    !.response = Some([status |-> 200, success |-> FALSE,
                                       activity |-> None])]

\* activity_classifier.py lines 120-124: what the analysis of a request can
\* give: the extraction fails or succeeds on each side of the snapshot (one
\* frame content and one window content are enough for the handler, which
\* only tests whether there is a result)
ManualOutcomes ==
    {ClassifyActivity(NewClassifier("none", 600, 60), vf, af, 0) :
        vf \in {EmptyVideo, CHOOSE v \in ExtractedVideo : v # EmptyVideo},
        af \in {EmptyAudio, CHOOSE a \in ExtractedAudio : a # EmptyAudio}}

\* api_routes.py lines 169-204: POST /api/classify, the analysis of line 178
\* (activity_classifier.py lines 106-135) and the answer
ManualClassification ==
    /\ sync_lock = 0
    /\ IF FoundEmpty(SyncData)
       THEN /\ AnalyzeReturning(1, None)
            /\ activity' = [activity EXCEPT ![1] = None]
            /\ ManualClassificationAnswer(None)
       ELSE \E a \in ManualOutcomes :
              /\ AnalyzeReturning(1, At(a, clock))
              /\ activity' = [activity EXCEPT ![1] = At(a, clock)]
              /\ ManualClassificationAnswer(At(a, clock))
    /\ entry' = [entry EXCEPT ![1] = "classify"]
    /\ UNCHANGED <<analysis_pc, video_features, audio_features, clock, frameVars,
                   svcVars, errVars, unitVars, audioVars, obsVars, syncVars>>

\* the capture pipeline taken alone: no frame asked for, and none of the
\* objects above, which the pipeline never calls
AppAtStart ==
    /\ frame_call = None
    /\ service = None
    /\ error_system = None
    /\ api = None
    /\ unit = None

\* ----------------------------------------------- StreamProcessor: audio
\* pyaudio_capture.py line 43: the buffer holds int16 samples
Int16Min == -32768
Int16Max == 32767

\* the samples windows are made of: both ends of the int16 range, the values
\* next to zero, and zero
Samples == {Int16Min, -1, 0, 1, Int16Max}
Windows == UNION {[1..n -> Samples] : n \in 0..MaxWindow}

\* np.abs on an int16 array: the result is int16, so -32768 stays -32768
Abs16(x) ==
    IF x = Int16Min THEN Int16Min ELSE IF x < 0 THEN -x ELSE x

RECURSIVE SeqMax(_)
\* np.max of a non-empty array
SeqMax(s) ==
    IF Len(s) = 1 THEN s[1]
    ELSE LET m == SeqMax(SubSeq(s, 1, Len(s) - 1))
         IN  IF s[Len(s)] > m THEN s[Len(s)] ELSE m

\* stream_processor.py line 66: np.max(np.abs(audio_data))
PeakOf(audio_data) == SeqMax([k \in 1..Len(audio_data) |-> Abs16(audio_data[k])])

\* A float64 quotient x / d of two int16 values, kept as the pair: with d = 0
\* it is nan for x = 0 and inf with the sign of x otherwise (numpy warns and
\* goes on).
Quotient(x, d) == [num |-> x, den |-> d]
IsNaN(q) == q.den = 0 /\ q.num = 0
IsInf(q) == q.den = 0 /\ q.num # 0

\* stream_processor.py lines 52-72: process_audio() on the samples of a
\* window; no statement of the try block raises for an int16 array, so the
\* except branch is never taken
NormalizedAudio(audio_data) ==
    IF audio_data = None \/ Len(audio_data) = 0
    THEN None
    ELSE Some([k \in 1..Len(audio_data) |->
                 Quotient(audio_data[k], PeakOf(audio_data))])

\* mutant: zero counts as negative
MutSignbit(q, nan_negative) ==
    IF IsNaN(q) THEN nan_negative
    ELSE IF q.num = 0 THEN TRUE
    ELSE (q.num < 0) # (q.den < 0)

\* np.signbit of a float64: the sign bit of a quotient is the exclusive or
\* of the signs of its terms, a zero numerator over a negative denominator is
\* -0.0, and the sign of the nan that 0/0 produces depends on the processor
Signbit(q, nan_negative) ==
    IF IsNaN(q) THEN nan_negative
    ELSE IF q.num = 0 THEN q.den < 0
    ELSE (q.num < 0) # (q.den < 0)

RECURSIVE CountTrue(_)
\* np.sum of a boolean array
CountTrue(b) ==
    IF Len(b) = 0 THEN 0
    ELSE CountTrue(SubSeq(b, 1, Len(b) - 1)) + (IF b[Len(b)] THEN 1 ELSE 0)

\* np.diff of a boolean array: not_equal of each element and the one before;
\* np.abs leaves a boolean array as it is
BoolDiff(b) == [k \in 1..(Len(b) - 1) |-> b[k + 1] # b[k]]

\* activity_classifier.py line 203 and stream_processor.py line 151:
\* np.sum(np.abs(np.diff(np.signbit(audio_data)))) / len(audio_data), kept
\* as the pair of the count and the length
ZeroCrossingRate(audio_data, nan_negative) ==
    LET signs == [k \in 1..Len(audio_data) |-> Signbit(audio_data[k], nan_negative)]
    IN  [num |-> CountTrue(BoolDiff(signs)), den |-> Len(audio_data)]

\* activity_classifier.py lines 190-191 and 203: the zero-crossing rate of
\* _extract_audio_features(), None for the {} of the early return
ExtractZeroCrossingRate(audio_data, nan_negative) ==
    IF audio_data = None
    THEN None
    ELSE Some(ZeroCrossingRate(audio_data[1], nan_negative))

\* a window as get_latest_audio() hands it to the sync loop
NewSignal(window, nan_negative) ==
    [window |-> window, nan_negative |-> nan_negative, pc |-> "raw",
     audio |-> None, zero_crossing_rate |-> None]

\* sync_manager.py line 96: the tick processes the window
ProcessAudioCall ==
    /\ unit.pc = "raw"
    /\ unit' = [unit EXCEPT !.pc = "processed",
                            !.audio = NormalizedAudio(unit.window)]
    /\ UNCHANGED <<clf, analysis_pc, callVars, clock, frameVars, svcVars, errVars,
                   apiVars, audioVars, obsVars, syncVars>>

\* activity_classifier.py line 121: the classifier extracts the features of
\* the processed window
ExtractAudioFeaturesCall ==
    /\ unit.pc = "processed"
    /\ unit' = [unit EXCEPT
                  !.pc = "extracted",
                  !.zero_crossing_rate =
                      ExtractZeroCrossingRate(unit.audio, unit.nan_negative)]
    /\ UNCHANGED <<clf, analysis_pc, callVars, clock, frameVars, svcVars, errVars,
                   apiVars, audioVars, obsVars, syncVars>>

\* ------------------------------------------------------ component locks
\* The five threading.Lock objects: obs_capture.py line 36, pyaudio_capture.py
\* line 47, sync_manager.py line 43, activity_classifier.py line 44,
\* error_system.py line 33.  A threading.Lock is not reentrant and promises
\* no order among the threads that wait for it.
Locks == {"frame_lock", "buffer_lock", "sync_lock", "activity_lock", "error_lock"}

\* The statements of a method, as far as locks are concerned: the entry and
\* the exit of a with block, and between them what the thread does:
\*  "copy": reads, assigns or slices fields,
\*  "compute": computes on local values (decoding, counting, sorting),
\*  "features": processes a frame or a window or extracts its features,
\*  "io": reads or writes a file, or talks to OBS over the network.
Acquire(l) == [op |-> "acquire", lock |-> l]
Release(l) == [op |-> "release", lock |-> l]
Do(kind) == [op |-> kind, lock |-> "none"]

\* obs_capture.py: capture_frame (126-204; the request of the screenshot,
\* its decoding, then lines 152-154 or 187-189) and get_current_frame (248-255)
ObsBodies(m) ==
    CASE m = "OBSCapture.capture_frame" ->
            <<Do("io"), Do("compute"),
              Acquire("frame_lock"), Do("copy"), Release("frame_lock")>>
      [] m = "OBSCapture.get_current_frame" ->
            <<Acquire("frame_lock"), Do("copy"), Release("frame_lock")>>

\* pyaudio_capture.py: _audio_callback (75-95), get_latest_audio (147-182, the
\* streaming case), get_buffer_status (184-201)
AudioBodies(m) ==
    CASE m = "PyAudioCapture._audio_callback" ->
            <<Do("compute"),
              Acquire("buffer_lock"), Do("copy"), Release("buffer_lock")>>
      [] m = "PyAudioCapture.get_latest_audio" ->
            <<Do("compute"),
              Acquire("buffer_lock"), Do("copy"), Release("buffer_lock"),
              Do("compute")>>
      [] m = "PyAudioCapture.get_buffer_status" ->
            <<Acquire("buffer_lock"), Do("copy"), Release("buffer_lock")>>

\* mutant: get_current_frame() reads the snapshot before it lets go of the
\* video source's lock
MutSyncBodies(m) ==
    CASE m = "SyncManager._sync_loop" ->
            ObsBodies("OBSCapture.get_current_frame")
            \o AudioBodies("PyAudioCapture.get_latest_audio")
            \o <<Do("features"),
                 Acquire("sync_lock"), Do("copy"), Release("sync_lock")>>
      [] m = "SyncManager.get_sync_data" ->
            <<Acquire("sync_lock"), Do("copy"), Release("sync_lock")>>
      [] m = "SyncManager.get_current_frame" ->
            <<Acquire("frame_lock"), Do("copy"),
              Acquire("sync_lock"), Do("copy"), Release("sync_lock"),
              Release("frame_lock")>>
      [] m = "SyncManager.get_current_audio" ->
            <<Acquire("sync_lock"), Do("copy"), Release("sync_lock")>>

\* sync_manager.py: one tick of _sync_loop that finds both (85-105),
\* get_sync_data (107-116), get_current_frame with the fallback (118-132),
\* get_current_audio (134-141)
SyncBodies(m) ==
    CASE m = "SyncManager._sync_loop" ->
            ObsBodies("OBSCapture.get_current_frame")
            \o AudioBodies("PyAudioCapture.get_latest_audio")
            \o <<Do("features"),
                 Acquire("sync_lock"), Do("copy"), Release("sync_lock")>>
      [] m = "SyncManager.get_sync_data" ->
            <<Acquire("sync_lock"), Do("copy"), Release("sync_lock")>>
      [] m = "SyncManager.get_current_frame" ->
            ObsBodies("OBSCapture.get_current_frame")
            \o <<Acquire("sync_lock"), Do("copy"), Release("sync_lock")>>
      [] m = "SyncManager.get_current_audio" ->
            <<Acquire("sync_lock"), Do("copy"), Release("sync_lock")>>

\* activity_classifier.py: analyze_current_activity with a result (106-135),
\* get_current_activity (319-326)
ClassifierBodies(m) ==
    CASE m = "ActivityClassifier.analyze_current_activity" ->
            SyncBodies("SyncManager.get_sync_data")
            \o <<Do("features"),
                 Acquire("activity_lock"), Do("copy"), Release("activity_lock")>>
      [] m = "ActivityClassifier.get_current_activity" ->
            <<Acquire("activity_lock"), Do("copy"), Release("activity_lock")>>

\* error_system.py: _load_errors (43-57), log_error (68-106, with the
\* _save_errors() of line 102 inside the with block), get_errors (124-145),
\* clear_errors (147-160, with the _save_errors() of line 156),
\* get_error_types (162-172), get_error_stats (174-200)
ErrorBodies(m) ==
    CASE m = "ErrorSystem._load_errors" ->
            <<Do("io"),
              Acquire("error_lock"), Do("copy"), Release("error_lock")>>
      [] m = "ErrorSystem.log_error" ->
            <<Do("compute"),
              Acquire("error_lock"), Do("copy"), Do("io"), Release("error_lock")>>
      [] m = "ErrorSystem.get_errors" ->
            <<Acquire("error_lock"), Do("copy"), Release("error_lock")>>
      [] m = "ErrorSystem.clear_errors" ->
            <<Acquire("error_lock"), Do("copy"), Do("io"), Release("error_lock")>>
      [] m = "ErrorSystem.get_error_types" ->
            <<Acquire("error_lock"), Do("compute"), Release("error_lock")>>
      [] m = "ErrorSystem.get_error_stats" ->
            <<Acquire("error_lock"), Do("compute"), Release("error_lock")>>

ObsMethods == {"OBSCapture.capture_frame", "OBSCapture.get_current_frame"}
AudioMethods == {"PyAudioCapture._audio_callback", "PyAudioCapture.get_latest_audio",
                 "PyAudioCapture.get_buffer_status"}
SyncMethods == {"SyncManager._sync_loop", "SyncManager.get_sync_data",
                "SyncManager.get_current_frame", "SyncManager.get_current_audio"}
ClassifierMethods == {"ActivityClassifier.analyze_current_activity",
                      "ActivityClassifier.get_current_activity"}
ErrorMethods == {"ErrorSystem._load_errors", "ErrorSystem.log_error",
                 "ErrorSystem.get_errors", "ErrorSystem.clear_errors",
                 "ErrorSystem.get_error_types", "ErrorSystem.get_error_stats"}

Body(m) ==
    CASE m \in ObsMethods -> ObsBodies(m)
      [] m \in AudioMethods -> AudioBodies(m)
      [] m \in SyncMethods -> SyncBodies(m)
      [] m \in ClassifierMethods -> ClassifierBodies(m)
      [] m \in ErrorMethods -> ErrorBodies(m)

\* The threads of the running program and what each runs: the capture loop
\* (obs_capture.py 206-236), the device's callback thread, the sync loop, the
\* analysis loop (activity_classifier.py 95-104), and a request thread of the
\* web server, which calls the public readers and the error log.
Agents == {"capture", "device", "sync", "analysis", "web"}
Runs(a) ==
    CASE a = "capture" -> {"OBSCapture.capture_frame"}
      [] a = "device" -> {"PyAudioCapture._audio_callback"}
      [] a = "sync" -> {"SyncManager._sync_loop"}
      [] a = "analysis" -> {"ActivityClassifier.analyze_current_activity"}
      [] a = "web" -> {"PyAudioCapture.get_buffer_status", "SyncManager.get_sync_data",
                       "SyncManager.get_current_frame", "SyncManager.get_current_audio",
                       "ActivityClassifier.get_current_activity"}
                      \cup (ErrorMethods \ {"ErrorSystem._load_errors"})

Outside == [method |-> "none", pos |-> 0, held |-> {}, blocked |-> FALSE]

\* the threads that hold lock l, and the statement a thread is at
Holders(l) == {a \in Agents : l \in unit[a].held}
InMethod(a) == unit[a].method # "none"
Current(a) == Body(unit[a].method)[unit[a].pos]

\* the thread after the statement it is at: at the next one, or returned
Advanced(a, held) ==
    IF unit[a].pos = Len(Body(unit[a].method))
    THEN [Outside EXCEPT !.held = held]
    ELSE [unit[a] EXCEPT !.pos = @ + 1, !.held = held, !.blocked = FALSE]

LocksOnly ==
    UNCHANGED <<clf, analysis_pc, callVars, clock, frameVars, svcVars, errVars,
                apiVars, audioVars, obsVars, syncVars>>

\* a thread enters one of its methods
LockCall(a, m) ==
    /\ ~InMethod(a)
    /\ unit' = [unit EXCEPT ![a] = [Outside EXCEPT !.method = m, !.pos = 1]]
    /\ LocksOnly

\* with self.<lock>: the lock is free and the thread takes it
LockAcquire(a) ==
    /\ InMethod(a)
    /\ Current(a).op = "acquire"
    /\ Holders(Current(a).lock) = {}
    /\ unit' = [unit EXCEPT ![a] = Advanced(a, unit[a].held \cup {Current(a).lock})]
    /\ LocksOnly

\* with self.<lock>: the lock is held, the thread starts to wait
LockBlock(a) ==
    /\ InMethod(a)
    /\ Current(a).op = "acquire"
    /\ Holders(Current(a).lock) # {}
    /\ ~unit[a].blocked
    /\ unit' = [unit EXCEPT ![a].blocked = TRUE]
    /\ LocksOnly

\* the end of a with block
LockRelease(a) ==
    /\ InMethod(a)
    /\ Current(a).op = "release"
    /\ unit' = [unit EXCEPT ![a] = Advanced(a, unit[a].held \ {Current(a).lock})]
    /\ LocksOnly

\* any other statement
LockWork(a) ==
    /\ InMethod(a)
    /\ Current(a).op \notin {"acquire", "release"}
    /\ unit' = [unit EXCEPT ![a] = Advanced(a, unit[a].held)]
    /\ LocksOnly

\* ------------------------------------------------------ specifications
Init ==
    /\ obs_reachable \in BOOLEAN
    /\ backend_video \in {<< >>, <<"cam">>}
    /\ NewOBSCapture
    /\ openable \in {{}, {0}}
    /\ NewPyAudioCapture(0)
    /\ NewSyncManager
    /\ clf = [i \in Classifiers |-> NewClassifier("none", 600, 60)]
    /\ video_features = EmptyVideo /\ audio_features = EmptyAudio
    /\ analysis_pc = [t \in Threads |-> "none"]
    /\ entry = [i \in Classifiers |-> "none"]
    /\ activity = [i \in Classifiers |-> None]
    /\ clock = 1
    /\ AppAtStart

\* The SyncManager between its producers and its readers: frames arrive
\* through capture_frame, audio through the started stream.
Next ==
    \/ \E n \in SourceNames \cup {NoName} : CaptureFrame(n)
    \/ SyncStart
    \/ SyncStop
    \/ \E t \in Threads : SyncLoopTop(t)
    \/ \E t \in Threads : SyncReadAudio(t)
    \/ \E t \in Threads : SyncWriteVideo(t)
    \/ \E t \in Threads : SyncWriteAudio(t)
    \/ \E t \in Threads : SyncWriteTime(t)
    \/ GetSyncData

Spec == Init /\ [][Next]_vars

\* The started pipeline with its loop threads scheduled fairly.  Requests
\* that arrive from outside (capture_frame, start_capture) carry no fairness.
LiveNext ==
    \/ SyncStart
    \/ StartAnalysisLoop
    \/ \E n \in SourceNames \cup {NoName} : CaptureFrame(n)
    \/ \E n \in SourceNames \cup {NoName} : StartCapture(n)
    \/ \E t \in Threads : CaptureLoop(t)
    \/ \E t \in Threads : SyncLoopTop(t)
    \/ \E t \in Threads : SyncReadAudio(t)
    \/ \E t \in Threads : SyncWriteVideo(t)
    \/ \E t \in Threads : SyncWriteAudio(t)
    \/ \E t \in Threads : SyncWriteTime(t)
    \/ \E t \in Threads : AnalysisLoop(t)

SyncLoopStep(t) ==
    \/ SyncLoopTop(t)
    \/ SyncReadAudio(t)
    \/ SyncWriteVideo(t)
    \/ SyncWriteAudio(t)
    \/ SyncWriteTime(t)

\* an iteration of the capture loop in which the backend delivers a screenshot
CaptureDelivers(t) == CaptureLoop(t) /\ frames_captured' # frames_captured

\* an iteration of the analysis loop whose extraction and classification succeed
AnalysisPublishes(t) == AnalysisLoop(t) /\ clf' # clf

\* Every started thread keeps running; a backend asked again and again
\* delivers, and an analysis given a pair again and again publishes.
Fairness ==
    /\ WF_vars(SyncStart)
    /\ WF_vars(StartAnalysisLoop)
    /\ \A t \in Threads : WF_vars(CaptureLoop(t)) /\ SF_vars(CaptureDelivers(t))
    /\ \A t \in Threads : WF_vars(SyncLoopStep(t))
    /\ \A t \in Threads : WF_vars(AnalysisLoop(t)) /\ SF_vars(AnalysisPublishes(t))

LiveSpec == Init /\ [][LiveNext]_vars /\ Fairness

\* The classifier's periodic and on-demand cycles over a SyncManager that is
\* started once and fed frames through capture_frame.
NextAnalysis ==
    \/ \E n \in SourceNames : CaptureFrame(n)
    \/ SyncStart
    \/ \E t \in Threads : SyncLoopStep(t)
    \/ StartAnalysisLoop
    \/ StopAnalysisLoop
    \/ \E t \in Threads : AnalysisLoop(t)
    \/ AnalyzeCurrentActivity

SpecAnalysis == Init /\ [][NextAnalysis]_vars

\* The SyncManager's lifecycle with stop() taken statement by statement.  The
\* sources are also started by direct calls, made by the thread that owns
\* the manager and therefore outside a stop().  The capture loop is not
\* scheduled, so no frame arrives and the sync loop never reaches its
\* critical section.
NextSync ==
    \/ SyncStart
    \/ SyncStopFlag
    \/ SyncStopJoin
    \/ SyncStopAudio
    \/ SyncStopVideo
    \/ \E t \in Threads : SyncLoopTop(t)
    \/ \E t \in Threads : SyncReadAudio(t)
    \/ RefreshSources
    \/ (stop_pc = "idle" /\ PyAudioStart)
    \/ (stop_pc = "idle" /\ \E n \in SourceNames : StartCapture(n))

SpecSync == Init /\ [][NextSync]_vars

\* a component at rest: its flag is clear and none of its loop threads is alive
SyncAtRest == ~is_running /\ \A t \in Threads : sync_pc[t] = "none"
CaptureAtRest == ~is_capturing /\ \A t \in Threads : cap_pc[t] = "none"
AnalysisAtRest == ~clf[1].is_analyzing /\ \A t \in Threads : analysis_pc[t] = "none"

\* Every loop-owning component started and stopped any number of times, with
\* the loop tests of the capture and analysis loops taken apart from the
\* bodies.  The components are exercised one at a time: one is started only
\* while the other two are at rest, so the loops meet through the data they
\* leave behind (the current frame, the snapshot); stop() is called at any
\* time, on running, stopped and never-started components alike.
NextStop ==
    \/ (CaptureAtRest /\ AnalysisAtRest /\ SyncStart)
    \/ SyncStop
    \/ \E t \in Threads : SyncLoopStep(t)
    \/ PyAudioStop
    \/ (SyncAtRest /\ AnalysisAtRest /\ \E n \in SourceNames : StartCapture(n))
    \/ StopCapture
    \/ \E t \in Threads : CaptureLoopTest(t)
    \/ \E t \in Threads : CaptureLoopBody(t)
    \/ (SyncAtRest /\ CaptureAtRest /\ StartAnalysisLoop)
    \/ StopAnalysisLoop
    \/ \E t \in Threads : AnalysisLoopTest(t)
    \/ \E t \in Threads : AnalysisLoopBody(t)

\* the environment in which every loop has work to do: OBS answers and the
\* default audio device opens
InitStop == Init /\ obs_reachable /\ backend_video = <<"cam">> /\ openable = {0}

SpecStop == InitStop /\ [][NextStop]_vars

CaptureLoopStep(t) == CaptureLoopTest(t) \/ CaptureLoopBody(t)
AnalysisLoopStep(t) == AnalysisLoopTest(t) \/ AnalysisLoopBody(t)

\* Every loop thread that can take a step eventually takes one; the calls
\* that start and stop the components carry no fairness.
FairLoops ==
    \A t \in Threads :
        /\ WF_vars(SyncLoopStep(t))
        /\ WF_vars(CaptureLoopStep(t))
        /\ WF_vars(AnalysisLoopStep(t))

LiveStop == InitStop /\ [][NextStop]_vars /\ FairLoops

\* The video source on its own, against every backend: direct calls of
\* capture_frame, the capture loop started and stopped, the source list
\* re-read, time passing.
NextCapture ==
    \/ \E n \in SourceNames \cup {NoName} : CaptureFrame(n)
    \/ \E n \in SourceNames \cup {NoName} : StartCapture(n)
    \/ StopCapture
    \/ \E t \in Threads : CaptureLoopTest(t)
    \/ \E t \in Threads : CaptureLoopBody(t)
    \/ RefreshSources
    \/ Tick

SpecCapture == Init /\ [][NextCapture]_vars

\* The three loops as in SpecStop, with iterations that raise.
NextFaults ==
    \/ NextStop
    \/ \E t \in Threads : SyncLoopRaise(t)
    \/ \E t \in Threads : CaptureLoopRaise(t)
    \/ \E t \in Threads : AnalysisLoopRaise(t)

SpecFaults == InitStop /\ [][NextFaults]_vars

\* The capture pipeline with nothing started, no backend and no device.
PipelineAtStart ==
    /\ clf = [i \in Classifiers |-> NewClassifier("none", 600, 60)]
    /\ video_features = EmptyVideo /\ audio_features = EmptyAudio
    /\ analysis_pc = [t \in Threads |-> "none"]
    /\ entry = [i \in Classifiers |-> "none"]
    /\ activity = [i \in Classifiers |-> None]
    /\ clock = 1
    /\ openable = {} /\ NewPyAudioCapture(0)
    /\ obs_reachable = FALSE /\ backend_video = << >> /\ NewOBSCapture
    /\ NewSyncManager

\* get_current_frame() called while frames arrive and the manager publishes.
NextFrame ==
    \/ \E n \in SourceNames : CaptureFrame(n)
    \/ SyncStart
    \/ \E t \in Threads : SyncLoopStep(t)
    \/ GetCurrentFrameRead
    \/ GetCurrentFrameFallback

SpecFrame == InitStop /\ [][NextFrame]_vars

\* An ExternalServiceClient of every retry count and delay, its two methods
\* called one call after the other against a service that answers or fails.
RetryDelays == {1, 2, 5}

InitService ==
    /\ PipelineAtStart
    /\ frame_call = None /\ error_system = None /\ api = None
    /\ unit = None
    /\ \E count \in 1..MaxRetries, delay \in RetryDelays :
          service = NewExternalServiceClient(count, delay)

NextService ==
    \/ \E op \in ServiceOps : ServiceCall(op)
    \/ ServiceRequest
    \/ ServiceSleep

SpecService == InitService /\ [][NextService]_vars

\* An ErrorSystem of every max_errors built on every log file, then used.
InitErrors ==
    /\ PipelineAtStart
    /\ frame_call = None /\ service = None /\ api = None
    /\ unit = None
    /\ \E max \in 1..MaxKept :
          \E file \in {None} \cup {Some(Prefix(OldRecords, n)) :
                                      n \in 0..Len(OldRecords)} :
             error_system = NewErrorSystem(file, max)

NextErrors ==
    \/ \E ty \in ErrorTypes : LogError(ty)
    \/ \E ex \in ExceptionTypes : LogException(ex)
    \/ ClearErrors

SpecErrors == InitErrors /\ [][NextErrors]_vars

\* POST /api/classify while frames arrive and the manager publishes: the
\* environment of InitStop, and the web application before any request.
InitClassify ==
    /\ obs_reachable = TRUE /\ backend_video = <<"cam">> /\ NewOBSCapture
    /\ openable = {0} /\ NewPyAudioCapture(0)
    /\ NewSyncManager
    /\ clf = [i \in Classifiers |-> NewClassifier("none", 600, 60)]
    /\ video_features = EmptyVideo /\ audio_features = EmptyAudio
    /\ analysis_pc = [t \in Threads |-> "none"]
    /\ entry = [i \in Classifiers |-> "none"]
    /\ activity = [i \in Classifiers |-> None]
    /\ clock = 1
    /\ frame_call = None /\ service = None /\ error_system = None
    /\ api = ApiAtStart
    /\ unit = None

NextClassify ==
    \/ \E n \in SourceNames : CaptureFrame(n)
    \/ SyncStart
    \/ \E t \in Threads : SyncLoopStep(t)
    \/ ManualClassification
    \/ Tick

SpecClassify == InitClassify /\ [][NextClassify]_vars

\* The snapshot over the manager's whole life: a first frame arrives at any
\* moment (which frame the source holds later plays no part here), the
\* manager is started, stopped and started again, time passes and
\* get_sync_data() is called in every state.
NextSnapshot ==
    \/ (current_frame = 0 /\ \E n \in SourceNames : CaptureFrame(n))
    \/ SyncStart
    \/ SyncStop
    \/ \E t \in Threads : SyncLoopStep(t)
    \/ GetSyncData
    \/ Tick

SpecSnapshot == InitStop /\ [][NextSnapshot]_vars

\* The video source's frame from its first capture to the disconnection, and
\* the manager reading it: one capture that succeeds, directly or in the
\* capture loop, captures that fail afterwards, the capture loop and the
\* manager each started while the other is at rest, stopped at any time, time
\* passing.
NextLiveFrame ==
    \/ (current_frame = 0 /\ \E n \in SourceNames : CaptureFrame(n))
    \/ CaptureFrame(NoName)
    \/ (SyncAtRest /\ \E n \in SourceNames : StartCapture(n))
    \/ StopCapture
    \/ Disconnect
    \/ \E t \in Threads : CaptureLoopTest(t)
    \/ \E t \in Threads : (current_frame = 0 /\ CaptureLoopBody(t))
    \/ (CaptureAtRest /\ SyncStart)
    \/ SyncStop
    \/ \E t \in Threads : SyncLoopStep(t)
    \/ Tick

SpecLiveFrame == InitStop /\ [][NextLiveFrame]_vars

\* The manager stopped statement by statement around a snapshot: one frame
\* arrives, the loop publishes it with the audio, stop() runs while the loop
\* is anywhere in its tick, the manager is started again once stop() has
\* returned, and callers read the snapshot at any time.
NextStopSnapshot ==
    \/ (current_frame = 0 /\ \E n \in SourceNames : CaptureFrame(n))
    \/ (stop_pc = "idle" /\ SyncStart)
    \/ SyncStopFlag
    \/ SyncStopJoin
    \/ SyncStopAudio
    \/ SyncStopVideo
    \/ \E t \in Threads : SyncLoopStep(t)
    \/ GetSyncData
    \/ Tick

SpecStopSnapshot == InitStop /\ [][NextStopSnapshot]_vars

\* One window through process_audio() and the feature extraction, for every
\* window of up to MaxWindow samples and both signs of nan.
InitSignal ==
    /\ PipelineAtStart
    /\ frame_call = None /\ service = None /\ error_system = None /\ api = None
    /\ \E window \in Windows, nan_negative \in BOOLEAN :
          unit = NewSignal(window, nan_negative)

NextSignal ==
    \/ ProcessAudioCall
    \/ ExtractAudioFeaturesCall

SpecSignal == InitSignal /\ [][NextSignal]_vars

\* The five threads of the running program in the methods that take a lock,
\* interleaved statement by statement.
InitLocks ==
    /\ PipelineAtStart
    /\ frame_call = None /\ service = None /\ error_system = None /\ api = None
    /\ unit = [a \in Agents |-> Outside]

NextLocks ==
    \/ \E a \in Agents : \E m \in Runs(a) : LockCall(a, m)
    \/ \E a \in Agents : LockAcquire(a)
    \/ \E a \in Agents : LockBlock(a)
    \/ \E a \in Agents : LockRelease(a)
    \/ \E a \in Agents : LockWork(a)

SpecLocks == InitLocks /\ [][NextLocks]_vars

\* A classifier configured with a confidence floor at, above and far above
\* the default, analysing on demand and in its loop while frames arrive and
\* the manager publishes.
MinConfidences == {600, 700, 900}

InitThreshold ==
    /\ obs_reachable = TRUE /\ backend_video = <<"cam">> /\ NewOBSCapture
    /\ openable = {0} /\ NewPyAudioCapture(0)
    /\ NewSyncManager
    /\ \E m \in MinConfidences :
          clf = [i \in Classifiers |-> NewClassifier("none", m, 60)]
    /\ video_features = EmptyVideo /\ audio_features = EmptyAudio
    /\ analysis_pc = [t \in Threads |-> "none"]
    /\ entry = [i \in Classifiers |-> "none"]
    /\ activity = [i \in Classifiers |-> None]
    /\ clock = 1
    /\ AppAtStart

NextThreshold ==
    \/ \E n \in SourceNames : CaptureFrame(n)
    \/ SyncStart
    \/ \E t \in Threads : SyncLoopStep(t)
    \/ StartAnalysisLoop
    \/ \E t \in Threads : AnalysisLoop(t)
    \/ AnalyzeCurrentActivity

SpecThreshold == InitThreshold /\ [][NextThreshold]_vars

InitAudio ==
    /\ openable \in SUBSET Devices
    /\ \E d \in Devices : NewPyAudioCapture(d)
    /\ clf = [i \in Classifiers |-> NewClassifier("none", 600, 60)]
    /\ video_features = EmptyVideo /\ audio_features = EmptyAudio
    /\ analysis_pc = [t \in Threads |-> "none"]
    /\ entry = [i \in Classifiers |-> "none"]
    /\ activity = [i \in Classifiers |-> None]
    /\ clock = 1
    /\ AppAtStart
    /\ obs_reachable = FALSE /\ backend_video = << >> /\ NewOBSCapture
    /\ NewSyncManager

NextAudio ==
    \/ PyAudioStart
    \/ PyAudioStopClose
    \/ PyAudioStopDrop
    \/ PyAudioStopClear
    \/ AudioCallback
    \/ \E d \in Durations : GetLatestAudioSelect(d)
    \/ GetLatestAudioReturn

SpecAudio == InitAudio /\ [][NextAudio]_vars

InitRules ==
    /\ video_features \in VideoDicts
    /\ audio_features \in AudioDicts
    /\ clf \in {f \in [Classifiers -> ClassifierStates] :
                    /\ f[1] = NewClassifier("none", 600, 60)
                    /\ f[2] # f[1]}
    /\ analysis_pc = [t \in Threads |-> "none"]
    /\ entry = [i \in Classifiers |-> "none"]
    /\ activity = [i \in Classifiers |-> None]
    /\ clock = 1
    /\ AppAtStart
    /\ openable = {} /\ NewPyAudioCapture(0)
    /\ obs_reachable = FALSE /\ backend_video = << >> /\ NewOBSCapture
    /\ NewSyncManager

NextRules ==
    \/ Tick
    \/ \E i \in Classifiers : Classify(i)
    \/ \E i \in Classifiers : Rules(i)

SpecRules == InitRules /\ [][NextRules]_vars

\* ------------------------------------------------- pipeline: claims
\* C1: whatever the interleaving of the sync loop's writes with
\* get_sync_data() calls, a call returns (None, None, 0) or a frame and an
\* audio window written by the same sync tick.
C1_ConsistentPair ==
    sync_result # None =>
        LET r == sync_result[1]
        IN  \/ r.video = None /\ r.audio = None /\ r.time = 0
            \/ /\ r.video # None /\ r.audio # None
               /\ r.video[1].tick = r.audio[1].tick

\* a call returned the pair of a tick that overwrote an earlier tick's pair
C1_Witness ==
    /\ sync_result # None
    /\ sync_result[1].video # None
    /\ sync_result[1].video[1].tick >= 2
    /\ sync_result[1].audio[1].tick >= 2

\* thread t leaves the test of line 93 in this step
TickDecided(t) == sync_pc[t] = "audio" /\ sync_pc'[t] # "audio"

\* the tick thread t decides in this step lacks the frame or the audio window
TickLacksData(t) == s_video[t] = 0 \/ s_audio'[t] = None

\* thread t is inside the critical section, or about to enter it, with both
\* a frame and an audio window in hand
WritesWithBoth(t) ==
    /\ sync_pc[t] \in {"lock", "wAudio", "wTime"}
    /\ sync_pc'[t] # sync_pc[t]
    /\ s_video[t] # 0 /\ s_audio[t] # None

\* C5: a sync tick that finds the frame or the audio window missing goes
\* back to sleep with the snapshot's frame, audio and timestamp unchanged;
\* the snapshot changes only in ticks that had both.
C5_SkippedTickKeepsSnapshot ==
    [][ /\ \A t \in Threads :
             TickDecided(t) /\ TickLacksData(t) =>
                 /\ UNCHANGED snapshotVars
                 /\ sync_pc'[t] = "top"
        /\ snapshotVars' # snapshotVars => \E t \in Threads : WritesWithBoth(t)
      ]_vars

\* a tick was skipped for lack of audio while an earlier pair is published
C5_Witness ==
    \E t \in Threads :
        /\ sync_pc[t] = "top"
        /\ s_video[t] # 0 /\ s_audio[t] = None
        /\ current_video_frame # None /\ current_audio_data # None
        /\ last_sync_time # 0

\* the preconditions of C2: a reachable backend reporting a video-capable
\* source, an open audio device, start() and start_analysis_loop() called
Started ==
    /\ connected /\ backend_video # << >>
    /\ is_streaming
    /\ is_running
    /\ clf[1].is_analyzing

\* a get_sync_data() call made now returns a non-empty (frame, audio) pair
PairReturned == sync_lock = 0 /\ SyncData.video # None /\ SyncData.audio # None

\* a get_current_activity() call made now returns a non-empty result
ActivityReturned == GetCurrentActivity(1) # None

\* C2 (as stated): once the backend is reachable and reports a video-capable
\* source, the audio device is open and both start methods were called, fair
\* scheduling leads to get_sync_data() returning a non-empty pair and to
\* get_current_activity() returning a non-empty result.
C2_AsStated == (Started ~> PairReturned) /\ (Started ~> ActivityReturned)

\* a get_sync_data() result that carries a pair
NonEmpty(result) == result # None /\ result[1].video # None /\ result[1].audio # None

\* C38: once get_sync_data() has returned a non-empty pair it never again
\* returns (None, None, 0), whatever ticks, skipped ticks, stop() and start()
\* calls come between, and the snapshot's timestamp never decreases from one
\* write to the next.
C38_SnapshotMonotone ==
    [][ /\ (NonEmpty(sync_result) => NonEmpty(sync_result'))
        /\ last_sync_time' >= last_sync_time ]_vars

\* the pair of a later tick was returned at a later time, the manager stopped
C38_Witness ==
    /\ NonEmpty(sync_result)
    /\ sync_result[1].video[1].tick = MaxTicks
    /\ sync_result[1].time = MaxClock
    /\ ~is_running

\* -------------------------------------------- classifier loop: claims
\* get_sync_data() would return (None, None, 0)
SnapshotEmpty == current_video_frame = None \/ current_audio_data = None

\* C11: a classification cycle, periodic or on demand, that finds a side of
\* get_sync_data() empty leaves last_activity and last_analysis_time as they
\* were, and the on-demand call returns None.
C11_EmptyCyclePublishesNothing ==
    [][ SnapshotEmpty =>
          /\ clf'[1].last_activity = clf[1].last_activity
          /\ clf'[1].last_analysis_time = clf[1].last_analysis_time
          /\ (entry'[1] # entry[1] \/ activity'[1] # activity[1])
                => activity'[1] = None
      ]_vars

\* an on-demand cycle and a started periodic loop ran against a running
\* SyncManager that holds a frame but no pair, and nothing is published
C11_Witness ==
    /\ entry[1] = "analyze" /\ activity[1] = None
    /\ \E t \in Threads : analysis_pc[t] = "run"
    /\ is_running /\ current_frame # 0
    /\ SnapshotEmpty
    /\ GetCurrentActivity(1) = None

\* the five labels of the cascade
Labels == {"inactif", "lecture", "navigation_web", "video", "visioconference"}

\* C12: the classifier's result slot is empty or holds a result whose
\* confidence lies in [0, 1], whose duration is 0 and whose type is one of
\* the five cascade labels.
C12_SlotWellFormed ==
    clf[1].last_activity # None =>
        LET r == clf[1].last_activity[1]
        IN  /\ r.confidence >= 0 /\ r.confidence <= 1000
            /\ r.duration = 0
            /\ r.type \in Labels

\* the slot holds a result whose confidence was cut at the audio rule's cap
C12_Witness ==
    /\ clf[1].last_activity # None
    /\ clf[1].last_activity[1].confidence = 950
    /\ clf[1].last_activity[1].type = "visioconference"

\* _analysis_loop threads that have not returned
LiveAnalysisThreads == {t \in Threads : analysis_pc[t] = "run"}

\* C13 (as stated): whatever the sequence of start_analysis_loop() and
\* stop_analysis_loop() calls, at most one classification loop thread that
\* can still run analysis cycles exists.
C13_AsStated == clf[1].is_analyzing => Cardinality(LiveAnalysisThreads) <= 1

\* C34: for every configured min_confidence, no result whose confidence is
\* below min_confidence is published as the classifier's current activity or
\* returned by analyze_current_activity().
C34_AsStated ==
    /\ GetCurrentActivity(1) # None =>
          GetCurrentActivity(1)[1].confidence >= clf[1].min_confidence
    /\ entry[1] = "analyze" /\ activity[1] # None =>
          activity[1][1].confidence >= clf[1].min_confidence

\* ------------------------------------------- manager lifecycle: claims
\* a start() call that found the manager stopped takes effect
StartStep == ~is_running /\ is_running'

\* the step starts a loop thread in a free slot of pc
ThreadStarted(pc, pcNext, at) ==
    \E t \in Threads : pc[t] = "none" /\ pcNext[t] = at

\* C17: SyncManager goes stopped -> running -> stopped.  start() from stopped
\* sets running, tries the audio source, starts video capture iff
\* video_sources is non-empty, and starts the sync loop whatever became of
\* the sources; start() while running and stop() while stopped change
\* nothing; a stopped manager with a free thread slot can be started.
C17_StateMachine ==
    /\ [][ /\ (StartStep =>
                  /\ stop_pc = "idle"
                  /\ (~is_streaming => Len(opens') >= 1)
                  /\ (is_streaming' <=>
                         is_streaming \/ (opens' # << >> /\ opens'[Len(opens')] \in openable))
                  /\ (ThreadStarted(cap_pc, cap_pc', "run") <=>
                         video_sources # << >> /\ ~is_capturing)
                  /\ (is_capturing' <=> is_capturing \/ video_sources # << >>)
                  /\ ThreadStarted(sync_pc, sync_pc', "top"))
           /\ (is_running /\ SyncStart => UNCHANGED vars)
           /\ (~is_running /\ SyncStopFlag => UNCHANGED vars) ]_vars
    /\ [](~is_running /\ stop_pc = "idle" /\ HasFreeThread(sync_pc) /\ HasFreeThread(cap_pc)
             => ENABLED (SyncStart /\ StartStep))

\* the manager runs after a restart (its second thread slot is in use) with
\* neither source started
C17_Witness ==
    /\ is_running /\ sync_pc[2] # "none"
    /\ ~is_streaming /\ opens # << >>
    /\ ~is_capturing /\ video_sources = << >>

\* C18: stop() from running clears the flag, then joins, then stops the audio
\* source, then the video source; the sources are stopped by no earlier
\* step, and when stop() returns the manager is not running, the audio
\* source not streaming and the video source not capturing.
C18_StopOrder ==
    [][ /\ (stop_pc = "idle" /\ stop_pc' # "idle" =>
                /\ is_running /\ ~is_running' /\ stop_pc' = "join"
                /\ UNCHANGED <<is_streaming, stream, is_capturing>>)
        /\ (stop_pc = "join" /\ stop_pc' # "join" =>
                /\ stop_pc' = "audio"
                /\ UNCHANGED <<is_running, is_streaming, stream, is_capturing>>)
        /\ (stop_pc = "audio" /\ stop_pc' # "audio" =>
                /\ stop_pc' = "video" /\ ~is_streaming'
                /\ UNCHANGED <<is_running, is_capturing>>)
        /\ (stop_pc = "video" /\ stop_pc' # "video" =>
                stop_pc' = "idle" /\ ~is_running' /\ ~is_streaming' /\ ~is_capturing')
        /\ (is_running /\ ~is_running' => stop_pc = "idle")
        /\ (is_streaming /\ ~is_streaming' => stop_pc = "audio")
        /\ (is_capturing /\ ~is_capturing' => stop_pc = "video") ]_vars

\* stop() has returned on its join timeout (a sync thread is alive) after
\* stopping an audio source that streamed and a video source that captured
C18_Witness ==
    /\ stop_pc = "idle" /\ ~is_running
    /\ \E t \in Threads : sync_pc[t] # "none"
    /\ ~is_streaming /\ opens # << >> /\ opens[Len(opens)] \in openable
    /\ ~is_capturing /\ \E t \in Threads : cap_pc[t] # "none"

\* --------------------------------------------- stopping loops: claims
\* C14: stop() is idempotent on the four components: it leaves the flag
\* clear, and called with the flag clear (after a stop, or never started) it
\* changes nothing; it can return whatever its loop threads are doing.
C14_StopIdempotent ==
    /\ [][ /\ (SyncStop => ~is_running' /\ (~is_running => UNCHANGED vars))
           /\ (StopCapture => ~is_capturing' /\ (~is_capturing => UNCHANGED vars))
           /\ (PyAudioStop => ~is_streaming' /\ (~is_streaming => UNCHANGED vars))
           /\ (StopAnalysisLoop =>
                  ~clf'[1].is_analyzing /\ (~clf[1].is_analyzing => UNCHANGED vars)) ]_vars
    /\ [](/\ ENABLED SyncStop
          /\ ENABLED StopCapture
          /\ ENABLED PyAudioStop
          /\ ENABLED StopAnalysisLoop)

\* stop_analysis_loop() has returned while the loop thread, which has
\* published a result, is still in its sleep
C14_Witness ==
    /\ ~clf[1].is_analyzing
    /\ clf[1].last_activity # None
    /\ \E t \in Threads : analysis_pc[t] = "run"

\* a component whose flag is clear still has a loop thread alive
Stopping(flag, pc) == ~flag /\ \E t \in Threads : pc[t] # "none"

\* C15: under fair scheduling no component stays for ever with its flag clear
\* and a loop thread alive: once stop() has cleared the flag, every thread
\* of the loop exits unless a start() sets the flag again.
C15_LoopsExit ==
    []<>(/\ ~Stopping(is_running, sync_pc)
         /\ ~Stopping(is_capturing, cap_pc)
         /\ ~Stopping(clf[1].is_analyzing, analysis_pc))

\* the three loops have run (a frame, a snapshot and a result exist) and,
\* stopped, have all exited
C15_Witness ==
    /\ CaptureAtRest /\ frames_captured > 0
    /\ SyncAtRest /\ current_video_frame # None
    /\ AnalysisAtRest /\ clf[1].last_activity # None

\* the threads of a loop that are past the loop test, inside an iteration
InIteration(pc) == {t \in Threads : pc[t] \notin {"none", "top", "run"}}

\* C16: while a component's flag is clear no thread of its loop begins an
\* iteration, and at most one is still inside the iteration it had begun, so
\* at most one write of the snapshot, of the current frame or of the last
\* activity follows the clearing of the flag.
C16_AsStated ==
    /\ [][ /\ (~is_running /\ ~is_running' =>
                  InIteration(sync_pc') \subseteq InIteration(sync_pc))
           /\ (~is_capturing /\ ~is_capturing' =>
                  InIteration(cap_pc') \subseteq InIteration(cap_pc))
           /\ (~clf[1].is_analyzing /\ ~clf'[1].is_analyzing =>
                  InIteration(analysis_pc') \subseteq InIteration(analysis_pc)) ]_vars
    /\ [](/\ (~is_running => Cardinality(InIteration(sync_pc)) <= 1)
          /\ (~is_capturing => Cardinality(InIteration(cap_pc)) <= 1)
          /\ (~clf[1].is_analyzing => Cardinality(InIteration(analysis_pc)) <= 1))

\* ------------------------------------------------ video source: claims
\* C21: once the connection to the backend has succeeded, the discovered
\* list holds the video-capable sources the backend reports; it is empty only
\* when the backend reports none (or both queries fail).
C21_AsStated ==
    connected /\ client => video_sources = backend_video

\* a step of capture_frame, called directly or by the loop, that stored nothing
FailedTick ==
    /\ \/ \E n \in SourceNames \cup {NoName} : CaptureFrame(n)
       \/ \E t \in Threads : CaptureLoopBody(t)
    /\ frames_captured' = frames_captured

\* a step of capture_frame that cannot succeed: no connection, or no source
\* named and none discovered
DoomedTick ==
    \/ /\ ~(connected /\ client)
       /\ \/ \E n \in SourceNames \cup {NoName} : CaptureFrame(n)
          \/ \E t \in Threads : CaptureLoopBody(t)
    \/ video_sources = << >> /\ CaptureFrame(NoName)

\* C22: a failed capture tick leaves the current frame and its timestamp
\* unchanged (a tick without connection or without source is a failed one),
\* the loop thread that made it is back at its loop test with is_capturing
\* as it was, and a loop thread at its test with is_capturing true begins
\* another tick.
C22_FailedTickKeepsFrame ==
    [][/\ DoomedTick => FailedTick
       /\ FailedTick => UNCHANGED <<current_frame, frame_time, is_capturing>>
       /\ \A t \in Threads :
             /\ CaptureLoopBody(t) => cap_pc'[t] = "run"
             /\ CaptureLoopTest(t) /\ is_capturing => cap_pc'[t] = "body"]_vars

\* a capture loop is in a tick while the video source holds an earlier frame
\* and has no connection problem: the tick may fail at the backend
C22_Witness ==
    /\ is_capturing /\ current_frame # 0 /\ frame_time < clock
    /\ \E t \in Threads : cap_pc[t] = "body"

\* C23: while a loop's running flag is true its thread is alive, whatever an
\* iteration raised.
C23_AsStated ==
    /\ is_running => \E t \in Threads : sync_pc[t] # "none"
    /\ is_capturing => \E t \in Threads : cap_pc[t] # "none"
    /\ clf[1].is_analyzing => \E t \in Threads : analysis_pc[t] # "none"

\* a get_current_frame() call has returned
FrameCallDone == IF frame_call = None THEN FALSE ELSE frame_call[1].pc = "done"

\* C24: SyncManager.get_current_frame() returns the video source's current
\* frame whenever the source has one, returns the snapshot's synchronized
\* frame exactly when the source has none (the source being read first, the
\* snapshot when the fallback reads it), returns empty only when both are
\* empty, and modifies neither the source's frame nor the snapshot.
C24_FrameWithFallback ==
    /\ [](FrameCallDone =>
            LET call == frame_call[1]
            IN  /\ call.obs # 0 => ~call.fallback /\ call.returned = RawFrame(call.obs)
                /\ call.obs = 0 => call.fallback /\ call.returned = call.snapshot
                /\ call.returned = None => call.obs = 0 /\ call.snapshot = None)
    /\ [][GetCurrentFrameRead \/ GetCurrentFrameFallback
            => UNCHANGED <<current_frame, frame_time, snapshotVars>>]_vars

\* a call found the video source empty and returned the frame of a snapshot
\* published since
C24_Witness ==
    /\ FrameCallDone
    /\ frame_call[1].fallback
    /\ frame_call[1].returned # None

\* C39: the video source's frame, once set by a successful capture, is never
\* reset by a failed capture, stop_capture() or disconnect(); the frame is
\* None exactly when its timestamp is 0; so a snapshot that holds a frame
\* implies a source that holds one, and a sync tick that finds a frame in the
\* source reads it, however old it is.
C39_FrameKept ==
    /\ [](current_frame = 0 <=> frame_time = 0)
    /\ [](current_video_frame # None => current_frame # 0)
    /\ [][current_frame # 0 => current_frame' # 0]_vars
    /\ [][\A t \in Threads :
            current_frame # 0 /\ sync_pc[t] = "top" /\ sync_pc'[t] = "audio"
                => s_video'[t] = current_frame]_vars

\* a tick has published the frame of a disconnected source, captured earlier
C39_Witness ==
    /\ ~connected /\ ~client
    /\ current_frame # 0
    /\ current_video_frame # None
    /\ current_video_frame[1].frame = current_frame
    /\ last_sync_time > frame_time

\* what the three readers of the manager return in a state
Readings == <<SyncData, IsVideoAvailable, IsAudioAvailable>>

\* a statement of stop() is executed
StopActs == stop_pc' # stop_pc \/ (is_running /\ ~is_running')

\* C40: no statement of SyncManager.stop() changes the snapshot or what
\* get_sync_data(), is_video_available() and is_audio_available() return, and
\* once the sync loop has exited the snapshot stays as it is; so a snapshot
\* published before stop() is still reported after both sources are stopped.
C40_StopKeepsSnapshot ==
    /\ [][StopActs => snapshotVars' = snapshotVars /\ Readings' = Readings]_vars
    /\ [][SyncAtRest /\ SyncAtRest' =>
            /\ snapshotVars' = snapshotVars
            /\ SyncData' = SyncData
            /\ IsAudioAvailable' = IsAudioAvailable
            /\ (IsVideoAvailable => IsVideoAvailable')]_vars

\* stop() has returned, the loop has exited, both sources are stopped, and
\* the snapshot published before is read back and reported available
C40_Witness ==
    /\ stop_pc = "idle" /\ SyncAtRest
    /\ ~is_streaming /\ ~is_capturing /\ opens # << >>
    /\ NonEmpty(Some(SyncData))
    /\ sync_result = Some(SyncData)
    /\ IsVideoAvailable /\ IsAudioAvailable

\* ---------------------------------------------- external client: claims
\* the requests of the call before the last one made so far
EarlierRequests == 1..(Len(service.outcomes) - 1)

\* C25: for every retry_count >= 1 and every pattern of failures a call makes
\* at most retry_count requests, every request before the last one failed
\* (it stops at the first success), a call that returned after a success
\* returned that response, a call that returned after a failure made
\* retry_count requests and returned None, and the call slept once between
\* consecutive requests and not after the last.
C25_RetryBudget ==
    service.retry_count >= 1 /\ service.pc # "idle" =>
        /\ Len(service.outcomes) <= service.retry_count
        /\ \A k \in EarlierRequests : ~service.outcomes[k].ok
        /\ service.pc = "request" => Len(service.sleeps) = Len(service.outcomes)
        /\ service.pc = "sleep" => Len(service.sleeps) = Len(service.outcomes) - 1
        /\ service.pc = "done" =>
              /\ Len(service.outcomes) >= 1
              /\ Len(service.sleeps) = Len(service.outcomes) - 1
              /\ LET last == service.outcomes[Len(service.outcomes)]
                 IN  IF last.ok
                     THEN service.result =
                              ServiceReturns(service.op, last.response)
                     ELSE /\ service.result = None
                          /\ Len(service.outcomes) = service.retry_count

\* a call of a client with several attempts has used all of them and returned
\* None
C25_Witness ==
    /\ service.pc = "done"
    /\ service.retry_count > 1
    /\ Len(service.outcomes) = service.retry_count
    /\ ~service.outcomes[Len(service.outcomes)].ok
    /\ service.result = None

\* C26: the wait before the k-th retry is k times the retry delay, for every
\* k below the retry count.
C26_AsStated ==
    \A k \in 1..Len(service.sleeps) :
        k < service.retry_count => service.sleeps[k] = k * service.retry_delay

\* -------------------------------------------------- error log: claims
\* C27: in every state of an ErrorSystem built on any log file the list in
\* memory and the file hold at most max_errors records, newest first.
C27_AsStated ==
    /\ Len(error_system.errors) <= error_system.max_errors
    /\ error_system.file # None =>
          Len(error_system.file[1]) <= error_system.max_errors
    /\ \A k \in 1..(Len(error_system.errors) - 1) :
          error_system.errors[k].id > error_system.errors[k + 1].id

\* ------------------------------------------- POST /api/classify: claims
\* the row appended for the result a
RowOf(a) == Row(a[1].type, a[1].confidence, a[1].duration, a[1], clock)

\* C28 as stated: a request appends exactly one record and answers
\* success=true with the result if and only if the cycle produced a result;
\* otherwise storage is unchanged and the answer is success=false.
C28_AsStated ==
    [][ManualClassification =>
          LET a == activity'[1]
          IN  IF a # None
              THEN /\ api'.storage = Append(api.storage, RowOf(a))
                   /\ api'.response[1].success /\ api'.response[1].activity = a
              ELSE /\ api'.storage = api.storage
                   /\ ~api'.response[1].success]_vars

\* C28: a request appends exactly one record, the row of the result, and
\* answers success=true with that same result if and only if the cycle
\* produced a result and the storage committed the row; when the cycle
\* produced nothing the storage is unchanged and the answer is success=false
\* (status 200); when the storage raises nothing is appended and the answer is
\* success=false with status 500.
C28_ClassifyStores ==
    [][ManualClassification =>
          LET a == activity'[1]
              answer == api'.response[1]
          IN  /\ answer.success <=> api'.storage # api.storage
              /\ answer.success =>
                    /\ a # None
                    /\ api'.storage = Append(api.storage, RowOf(a))
                    /\ answer.activity = a /\ answer.status = 200
              /\ ~answer.success => api'.storage = api.storage
              /\ a = None => ~answer.success /\ answer.status = 200
              /\ a # None /\ ~answer.success => answer.status = 500]_vars

\* a second request has stored its result after the first
C28_Witness ==
    /\ api.response # None
    /\ api.response[1].success
    /\ Len(api.storage) = Len(CreateDummyData) + 2
    /\ api.storage[Len(api.storage)].metadata = api.response[1].activity[1]

\* ------------------------------------------------ audio buffer: claims
\* the last call ran while streaming and no callback fired during it
QuietCall == latest # None /\ latest[1].streaming /\ ~latest[1].callbacks

\* C3: after any number of device callbacks, each writing the next value of
\* an increasing counter, a get_latest_audio call returns at most
\* buffer_chunks chunks; the written chunks come in the order they were
\* written, each the successor of the one before (never-written slots can
\* only precede them), and the last one is the most recently written chunk.
C3_ChronologicalOrder ==
    QuietCall =>
        LET data == latest[1].data
        IN  /\ Len(data) <= buffer_chunks
            /\ \A k \in 1..(Len(data) - 1) :
                    data[k] = 0 \/ data[k + 1] = data[k] + 1
            /\ latest[1].at > 0 => (Len(data) > 0 /\ data[Len(data)] = latest[1].at)

\* after more than two wraps, a window that straddles the physical boundary
C3_Witness ==
    /\ QuietCall
    /\ latest[1].at > 2 * buffer_chunks
    /\ latest[1].index = 1
    /\ latest[1].data = <<latest[1].at - 1, latest[1].at>>

\* C4 as stated: while streaming, get_latest_audio(d) returns exactly
\* min(floor(d * sample_rate / (chunk_size * 1000)), buffer_chunks) chunks,
\* the most recently written ones; zero chunks yield no samples.
C4_AsStated ==
    QuietCall =>
        LET data == latest[1].data
            chunksNeeded ==
                Min((latest[1].duration_ms * sample_rate) \div (chunk_size * 1000),
                    buffer_chunks)
        IN  /\ Len(data) = chunksNeeded
            /\ \A k \in 1..Len(data) :
                    data[k] = IF latest[1].at - chunksNeeded + k > 0
                              THEN latest[1].at - chunksNeeded + k ELSE 0

\* C29: the write index always lies in 0..buffer_chunks-1; a callback writes
\* its chunk into the slot at the write index, leaves every other slot as it
\* was, and advances the index by one modulo the capacity.
C29_RingWrite ==
    /\ [](buffer_index \in Slots /\ DOMAIN audio_buffer = Slots)
    /\ [][AudioCallback =>
            /\ audio_buffer'[buffer_index] = written'
            /\ \A k \in Slots \ {buffer_index} : audio_buffer'[k] = audio_buffer[k]
            /\ buffer_index' = (buffer_index + 1) % buffer_chunks]_vars

\* the write index has wrapped: the callback after a full round wrote slot 0
C29_Witness ==
    /\ written = buffer_chunks + 1
    /\ buffer_index = 1
    /\ audio_buffer[0] = written

\* lines 168-177: the slots of the window that ends before index hi, oldest
\* first, for the start index lo
SelectedSlots(lo, hi) ==
    IF lo < hi
    THEN [k \in 1..(hi - lo) |-> lo + k - 1]
    ELSE [k \in 1..(buffer_chunks - lo + hi) |-> (lo + k - 1) % buffer_chunks]

\* what slot k held when `at` chunks had been written: the last chunk written
\* into it, 0 if none
ContentAt(k, at) ==
    LET chunks == {c \in 1..at : (c - 1) % buffer_chunks = k}
    IN  IF chunks = {} THEN 0 ELSE CHOOSE c \in chunks : \A d \in chunks : d <= c

\* C30: the samples a get_latest_audio() call returns are the contents its
\* selected slots had at the instant the window was selected under the lock,
\* whatever callbacks ran during the call.
C30_AsStated ==
    latest # None /\ latest[1].streaming =>
        LET hi == latest[1].index
            lo == (hi - Min((sample_rate * latest[1].duration_ms)
                               \div (chunk_size * 1000), buffer_chunks))
                     % buffer_chunks
            slots == SelectedSlots(lo, hi)
        IN  /\ Len(latest[1].data) = Len(slots)
            /\ \A k \in 1..Len(slots) :
                  latest[1].data[k] = ContentAt(slots[k], latest[1].at)

\* C19: once stop() has returned no callback fires: while is_streaming is
\* false the buffer and the write index do not change; stop() closes the
\* device stream before it drops the handle, and drops the handle before it
\* clears is_streaming.
C19_NoCallbackAfterStop ==
    [][ /\ (~is_streaming => UNCHANGED <<audio_buffer, buffer_index>>)
        /\ (stream # "none" /\ stream' = "none" => stream = "closed")
        /\ (is_streaming /\ ~is_streaming' => stream = "none") ]_vars

\* a stream that delivered chunks was stopped, and the device could deliver more
C19_Witness ==
    /\ ~is_streaming /\ stream = "none"
    /\ written > 0 /\ written < MaxCallbacks
    /\ opens # << >>

\* every open attempt of the last start() call failed
AllOpensFailed == opens # << >> /\ \A k \in 1..Len(opens) : opens[k] \notin openable

\* C20: start() opens at most twice, the second time on device 0 after a
\* failure on another device; when every attempt fails is_streaming stays
\* false and get_latest_audio() returns None for every duration.
C20_FallbackOnce ==
    /\ Len(opens) <= 2
    /\ (Len(opens) = 2 => opens[1] # 0 /\ opens[2] = 0 /\ device_index = 0)
    /\ (AllOpensFailed =>
            /\ ~is_streaming
            /\ \A d \in Durations : GetLatestAudio(d) = None
            /\ (latest # None => latest[1].data = << >>))

\* both attempts failed and a later get_latest_audio() returned
C20_Witness ==
    /\ opens = <<1, 0>> /\ AllOpensFailed
    /\ latest # None /\ latest[1].data = << >>

\* C36: while streaming, every chunk get_latest_audio() returns was written by
\* a device callback: a slot still holding its initial zeros is never part of
\* the returned window.
C36_AsStated ==
    latest # None /\ latest[1].streaming =>
        \A k \in 1..Len(latest[1].data) : latest[1].data[k] # 0

\* ------------------------------------------------ audio signal: claims
\* the absolute value of an integer, and the peak absolute amplitude of a
\* window, in the integers
Magnitude(x) == IF x < 0 THEN -x ELSE x
PeakAmplitude(window) == SeqMax([k \in 1..Len(window) |-> Magnitude(window[k])])

\* C33 (as stated): for every non-empty window of int16 samples, the
\* all-zero window included, process_audio() returns the window divided by
\* its peak absolute amplitude, and every returned sample lies in [-1, 1].
C33_AsStated ==
    unit.pc # "raw" /\ Len(unit.window) > 0 =>
        /\ unit.audio # None
        /\ \A k \in 1..Len(unit.window) :
              LET q == unit.audio[1][k]
              IN  /\ ~IsNaN(q) /\ ~IsInf(q)
                  /\ q.num * PeakAmplitude(unit.window) = unit.window[k] * q.den
                  /\ Magnitude(q.num) <= Magnitude(q.den)

\* a sample that is a number below zero; zero is not
Negative(q) ==
    /\ ~IsNaN(q)
    /\ IF q.den = 0 THEN q.num < 0 ELSE q.num * q.den < 0

\* the adjacent pairs of which one sample is negative and the other is not
Crossings(a) == {k \in 1..(Len(a) - 1) : Negative(a[k]) # Negative(a[k + 1])}

\* C35: for a window of n numbers, the zero-crossing rate the extraction
\* computes is the number of adjacent pairs with one negative and one
\* non-negative sample (zero is non-negative) divided by n; it is at most
\* (n - 1) / n, and 0 when all samples have the same sign.
C35_ZeroCrossingRate ==
    (/\ unit.pc = "extracted"
     /\ unit.audio # None
     /\ \A k \in 1..Len(unit.window) : ~IsNaN(unit.audio[1][k]))
    => LET a == unit.audio[1]
           z == unit.zero_crossing_rate[1]
       IN  /\ z.den = Len(a)
           /\ z.num = Cardinality(Crossings(a))
           /\ z.num <= Len(a) - 1
           /\ ((\A k \in 1..Len(a) : Negative(a[k]))
                   \/ (\A k \in 1..Len(a) : ~Negative(a[k]))
                => z.num = 0)

\* every adjacent pair of a window that touches zero crosses
C35_Witness ==
    /\ unit.pc = "extracted"
    /\ unit.window = <<-1, 0, -1>>
    /\ unit.zero_crossing_rate = Some([num |-> 2, den |-> 3])

\* --------------------------------------------- component locks: claims
\* C31 (as stated): no thread performs file or network input/output, or
\* processes a frame or a window, while it holds a component lock.
C31_AsStated ==
    \A a \in Agents :
        InMethod(a) /\ unit[a].held # {} => Current(a).op \notin {"io", "features"}

\* a thread other than the device callback takes the audio buffer's lock
ReaderTakesBuffer ==
    \E r \in Agents \ {"device"} :
        "buffer_lock" \notin unit[r].held /\ "buffer_lock" \in unit'[r].held

\* C32 (as stated): the writer takes precedence on the audio buffer's lock:
\* while the device callback waits for it no reader acquires it, so the
\* callback waits for at most the critical section in progress.
C32_AsStated == [][ReaderTakesBuffer => ~unit["device"].blocked]_vars

\* C37: no thread ever holds two component locks at once, and a thread that
\* waits for a lock waits for a thread that is not itself waiting, so the
\* locks cannot deadlock.
C37_OneLockAtATime ==
    \A a \in Agents :
        /\ Cardinality(unit[a].held) <= 1
        /\ (InMethod(a) /\ Current(a).op = "acquire" =>
               \A b \in Holders(Current(a).lock) :
                   b # a /\ Current(b).op # "acquire")

\* three locks are held at once by three threads while a fourth thread and
\* a fifth wait
C37_Witness ==
    /\ Cardinality({l \in Locks : Holders(l) # {}}) >= 3
    /\ Cardinality({a \in Agents : unit[a].blocked}) >= 2

\* ------------------------------------------------ rule cascade: claims
Returned(i) == entry[i] # "none" /\ activity[i] # None
TypeOf(i) == activity[i][1].type
ConfOf(i) == activity[i][1].confidence
Energy == Get(audio_features.energy, 0)
Zcr == Get(audio_features.zero_crossing_rate, 0)
Std == Get(video_features.std_intensity, 0)
Mean == Get(video_features.mean_intensity, 0)
HasVideo == video_features # EmptyVideo
HasAudio == audio_features # EmptyAudio
Overlay == HasVideo /\ HasAudio /\ Std # NaN /\ Std > 30 /\ Energy # NaN /\ Energy > 50
LoudAudio == HasAudio /\ Energy # NaN /\ Energy > 100

\* C6: rule 1.  Whenever a call has returned for inputs with audio energy
\* above 0.1 and the overlay condition false, the result is visioconference
\* with confidence min(0.7 + energy, 0.95) if zero_crossing_rate > 0.2 and
\* video with confidence min(0.65 + energy, 0.9) otherwise, whatever the
\* video features; energy 0.3, zcr 0.5 and no video give visioconference 0.95.
C6_Rule1 ==
    \A i \in Classifiers :
        (entry[i] # "none" /\ LoudAudio /\ ~Overlay) =>
            /\ activity[i] # None
            /\ (Zcr > 200 =>
                    /\ TypeOf(i) = "visioconference"
                    /\ ConfOf(i) = (IF 700 + Energy < 950 THEN 700 + Energy ELSE 950))
            /\ (Zcr <= 200 =>
                    /\ TypeOf(i) = "video"
                    /\ ConfOf(i) = (IF 650 + Energy < 900 THEN 650 + Energy ELSE 900))
            /\ ((Energy = 300 /\ Zcr = 500 /\ ~HasVideo) =>
                    (TypeOf(i) = "visioconference" /\ ConfOf(i) = 950))

C6_Witness ==
    /\ entry[1] = "classify" /\ entry[2] = "rules"
    /\ Energy = 300 /\ Zcr = 500 /\ ~HasVideo
    /\ ConfOf(1) = 950 /\ TypeOf(2) = "visioconference"

\* C7: rule 2 is consulted only when rule 1 did not match.  For inputs with
\* video features present, audio energy absent or at most 0.1 and the overlay
\* condition false, the result is inactif 0.8 when std < 20 and mean < 100,
\* lecture 0.7 when std < 20 and mean >= 100, video 0.75 when std > 50 and
\* navigation_web 0.65 when 20 <= std <= 50.
C7_Rule2 ==
    \A i \in Classifiers :
        (entry[i] # "none" /\ HasVideo /\ Energy # NaN /\ Energy <= 100 /\ ~Overlay) =>
            /\ activity[i] # None
            /\ <<TypeOf(i), ConfOf(i)>> =
                   (CASE Std < 20 /\ Mean < 100 -> <<"inactif", 800>>
                      [] Std < 20 /\ Mean >= 100 -> <<"lecture", 700>>
                      [] Std > 50 -> <<"video", 750>>
                      [] Std >= 20 /\ Std <= 50 -> <<"navigation_web", 650>>)

C7_Witness ==
    /\ entry[1] = "classify"
    /\ Std = 60 /\ ~HasAudio
    /\ TypeOf(1) = "video" /\ ConfOf(1) = 750

\* C8: the overlay rule is applied last and wins.  For inputs with both
\* feature dicts present, std_intensity > 30 and energy > 0.05 the result is
\* visioconference with confidence exactly 0.85 whatever rule 1 or rule 2
\* computed; when the condition is false the result is the one of rule 1 or
\* rule 2 (or the default inactif 0.6 when neither matched).
C8_Overlay ==
    \A i \in Classifiers :
        Returned(i) =>
            /\ Overlay => (TypeOf(i) = "visioconference" /\ ConfOf(i) = 850)
            /\ ~Overlay =>
                  <<TypeOf(i), ConfOf(i)>> =
                      (IF LoudAudio THEN AudioRule(audio_features)
                       ELSE IF HasVideo THEN VideoRule(video_features)
                       ELSE DefaultRule)

\* rule 1 had produced 0.95 and the overlay lowered it to 0.85
C8_Witness ==
    /\ entry[1] = "classify"
    /\ Overlay /\ Energy = 300 /\ Zcr = 500 /\ Std = 35
    /\ AudioRule(audio_features)[2] = 950
    /\ ConfOf(1) = 850

C10_SameResult ==
    (entry[1] # "none" /\ entry[1] = entry[2]) =>
        /\ (activity[1] = None) <=> (activity[2] = None)
        /\ activity[1] # None =>
              (TypeOf(1) = TypeOf(2) /\ ConfOf(1) = ConfOf(2))

\* the two instances differ in every field, and were called at different times
C10_Witness ==
    /\ entry[1] = "classify" /\ entry[2] = "classify"
    /\ activity[1] # None /\ activity[2] # None
    /\ clf[1].model # clf[2].model
    /\ clf[1].min_confidence # clf[2].min_confidence
    /\ clf[1].analysis_interval # clf[2].analysis_interval
    /\ clf[1].is_analyzing # clf[2].is_analyzing
    /\ clf[1].last_activity # clf[2].last_activity
    /\ activity[1][1].timestamp # activity[2][1].timestamp
    /\ ConfOf(1) = ConfOf(2)
====
